---- MODULE Spec2Model ----
(***************************************************************************)
(* Open-LLM-webchat: the chat turn handler (get_response), the stop        *)
(* handler (stop_agent_running_stream) and the session replay              *)
(* (load_sessions_history), modelled as a state machine.                   *)
(*                                                                         *)
(* A text is a sequence of string tokens; concatenation is \o.             *)
(* A transcript is a sequence of ChatMessage records.                      *)
(***************************************************************************)
EXTENDS Integers, Sequences, FiniteSets, TLC

VARIABLES
    running_agent,    \* process_chat.py global: the recorded handle (0 = None)
    current_run_id,   \* process_chat.py global: the recorded run id (0 = None)
    pc,               \* per turn: where the get_response coroutine is suspended
    conv,             \* per turn: the chat UI (browser tab) that submitted it
    meta,             \* per turn: chat_event_metadata_radio
    strm,             \* per turn: chat_stream_radio
    chat_history,     \* per turn: the chat_history list of the call
    stream_response,  \* per turn: the content buffer
    chunk,            \* per turn: the event received and not yet processed
    emitted,          \* per turn: the events the agent has emitted in this run
    session,          \* per chat UI: the session selected in it (session_radio)
    ui,               \* per chat UI: last yielded input / stop-button update
    shown,            \* per chat UI: last yielded chatbot value
    snaps,            \* per turn: number of snapshots yielded so far
    cancelled,        \* agent side: run ids for which cancellation was requested
    cancel_log,       \* every cancel_run call issued: [agent, run_id, from]
    stops,            \* the calls of stop_agent_running_stream so far: the chat UI of each
    at_cancel,        \* per turn: transcript, buffer and pending event when its run was cancelled
    env,              \* the scenario: how many turns, overlap, events per run
    store,            \* agent_sessions.runs of the session that is reloaded
    loaded,           \* the last result of load_sessions_history
    db,               \* the agent_sessions table: its state and its (user, session) rows
    listed,           \* the last result of get_session_ids_from_db
    deleted           \* the last result of delete_session_from_db

liveVars == <<running_agent, current_run_id, pc, conv, meta, strm, chat_history,
              stream_response, chunk, emitted, session, ui, shown, snaps, cancelled,
              cancel_log, stops, at_cancel, env>>

storeVars == <<store, loaded, db, listed, deleted>>

vars == <<running_agent, current_run_id, pc, conv, meta, strm, chat_history,
          stream_response, chunk, emitted, session, ui, shown, snaps, cancelled,
          cancel_log, stops, at_cancel, env, store, loaded, db, listed, deleted>>

----------------------------------------------------------------------------
(* Bounds *)

MaxTurns == 2      \* turns (each with its own agent and run id) in an overlapping scenario
MaxEvents == 3     \* events per run when turns do not overlap
ConcEvents == 1    \* events per run when turns overlap
MaxStops == 2      \* stop requests per behaviour
MaxStored == 3     \* messages and events in the stored record of a session
MaxRuns == 2       \* runs in the stored record of a session
MaxRows == 3       \* rows in the agent_sessions table

Turns == 1..MaxTurns
Convs == {"c1", "c2"}
Sessions == {"s1", "s2"}
None == 0

----------------------------------------------------------------------------
(* Texts and transcript entries *)

Placeholder == <<"### ...">>
ErrorMsg == <<"An error occurred while processing your request.">>
UserMsg == <<"hi">>

ChatMessage(role, content, title) ==
    [role |-> role, content |-> content, title |-> title]

NoTitle == ""
TitleStarted == "ToolCallStarted"
TitleCompleted == "ToolCallCompleted"

\* f"{x:.4f}s" and f"{x:.3f}s" for the whole numbers the model uses
Fmt4(x) == ToString(x) \o ".0000s"
Fmt3(x) == ToString(x) \o ".000s"

IsSpace(tok) == tok \in {" ", "\n"}

RECURSIVE LStrip(_)
LStrip(s) == IF s # <<>> /\ IsSpace(Head(s)) THEN LStrip(Tail(s)) ELSE s

RECURSIVE RStrip(_)
RStrip(s) ==
    IF s # <<>> /\ IsSpace(s[Len(s)]) THEN RStrip(SubSeq(s, 1, Len(s) - 1)) ELSE s

Strip(s) == RStrip(LStrip(s))

Last(q) == q[Len(q)]
ReplaceLast(h, e) == [h EXCEPT ![Len(h)] = e]

----------------------------------------------------------------------------
(* Run events, as the agent's stream delivers them (chunk) *)

EvToolStarted == "ToolCallStarted"      \* RunEvent.tool_call_started
EvToolCompleted == "ToolCallCompleted"  \* RunEvent.tool_call_completed
EvRunContent == "RunContent"            \* RunEvent.run_content
EvRunStarted == "RunStarted"            \* some other event kind
EvRunCancelled == "RunCancelled"        \* the event a cancelled run ends with

NoMetrics == -1
NoTool == [tool_call_id |-> 0, tool_name |-> "", tool_args |-> "", result |-> <<>>,
           metrics |-> NoMetrics]
NoChunk == [event |-> "", run_id |-> None, is_str |-> FALSE, content |-> <<>>,
            tool |-> NoTool, created_at |-> 0]

Tool(id, m) == [tool_call_id |-> id, tool_name |-> "search", tool_args |-> "q",
                result |-> <<"r">>, metrics |-> m]

Event(kind, run, isstr, content, tool, at) ==
    [event |-> kind, run_id |-> run, is_str |-> isstr, content |-> content,
     tool |-> tool, created_at |-> at]

Fragments == {<<"a">>, <<"b">>}
Durations == {2}

StartedIds(evs) == {evs[i].tool.tool_call_id : i \in {j \in DOMAIN evs : evs[j].event = EvToolStarted}}
CompletedIds(evs) == {evs[i].tool.tool_call_id : i \in {j \in DOMAIN evs : evs[j].event = EvToolCompleted}}
OpenIds(evs) == StartedIds(evs) \ CompletedIds(evs)

\* The events the agent may deliver next in run r after having delivered evs:
\* a tool completes only after it started, under the id it started with.
NextEvents(r, evs) ==
    LET at == Len(evs) + 1
        newid == Cardinality(StartedIds(evs)) + 1
    IN  {Event(EvRunStarted, r, FALSE, <<>>, NoTool, at)}
        \cup {Event(EvRunContent, r, TRUE, f, NoTool, at) : f \in Fragments}
        \cup {Event(EvRunContent, r, FALSE, <<>>, NoTool, at)}
        \cup {Event(EvToolStarted, r, FALSE, <<>>, Tool(newid, NoMetrics), at)}
        \cup {Event(EvToolCompleted, r, FALSE, <<>>, Tool(id, m), at) :
                 id \in OpenIds(evs), m \in Durations \cup {NoMetrics}}

----------------------------------------------------------------------------
(* get_response, streaming path: what one chunk does to the transcript *)

LiveStartedContent(tool) ==
    <<"\n", "**Tool:**", " ", "<bq>", tool.tool_name, "<bq>", "\n",
      "**Arguments:**", " ", "<bq>", tool.tool_args, "<bq>", "\n">>

\* ( f"\n**Results:** \n{result}\n" f"**Execution time:** {duration:.4f}s" )
\*     if chunk.tool.metrics else "**Execution time:** N/A\n"
LiveCompletedContent(tool) ==
    IF tool.metrics # NoMetrics
    THEN <<"\n", "**Results:**", " ", "\n">> \o tool.result
         \o <<"\n", "**Execution time:**", " ", Fmt4(tool.metrics)>>
    ELSE <<"**Execution time:**", " ", "N/A", "\n">>

ClearPlaceholder(h) ==
    IF h[Len(h)].content = Placeholder
    THEN ReplaceLast(h, ChatMessage("assistant", <<>>, NoTitle))
    ELSE h

\* as ProcessChunk, but a tool start leaves the placeholder in place
ProcessChunkKeepsPlaceholder(h, sr, m, ch) ==
    LET afterTool ==
          IF ch.event = EvToolStarted
          THEN IF m = "ON"
               THEN [h |-> Append(h,
                                  ChatMessage("assistant", LiveStartedContent(ch.tool), TitleStarted)),
                     sr |-> sr \o <<"\n">> \o <<"\n">>, y |-> TRUE]
               ELSE [h |-> h, sr |-> sr \o <<"\n">>, y |-> FALSE]
          ELSE IF ch.event = EvToolCompleted /\ m = "ON"
          THEN [h |-> Append(Append(ClearPlaceholder(h),
                                    ChatMessage("assistant", LiveCompletedContent(ch.tool), TitleCompleted)),
                             ChatMessage("assistant", <<>>, NoTitle)),
                sr |-> <<>>, y |-> TRUE]
          ELSE [h |-> h, sr |-> sr, y |-> FALSE]
    IN  IF ch.event = EvRunContent /\ ch.is_str
        THEN [h |-> ReplaceLast(afterTool.h, ChatMessage("assistant", afterTool.sr \o ch.content, NoTitle)),
              sr |-> afterTool.sr \o ch.content, y |-> TRUE]
        ELSE afterTool

\* as ProcessChunk, but a fragment is shown in an entry of its own
ProcessChunkAppendsContent(h, sr, m, ch) ==
    LET afterTool ==
          IF ch.event = EvToolStarted
          THEN IF m = "ON"
               THEN [h |-> Append(ClearPlaceholder(h),
                                  ChatMessage("assistant", LiveStartedContent(ch.tool), TitleStarted)),
                     sr |-> sr \o <<"\n">> \o <<"\n">>, y |-> TRUE]
               ELSE [h |-> h, sr |-> sr \o <<"\n">>, y |-> FALSE]
          ELSE IF ch.event = EvToolCompleted /\ m = "ON"
          THEN [h |-> Append(Append(ClearPlaceholder(h),
                                    ChatMessage("assistant", LiveCompletedContent(ch.tool), TitleCompleted)),
                             ChatMessage("assistant", <<>>, NoTitle)),
                sr |-> <<>>, y |-> TRUE]
          ELSE [h |-> h, sr |-> sr, y |-> FALSE]
    IN  IF ch.event = EvRunContent /\ ch.is_str
        THEN [h |-> Append(afterTool.h, ChatMessage("assistant", afterTool.sr \o ch.content, NoTitle)),
              sr |-> afterTool.sr \o ch.content, y |-> TRUE]
        ELSE afterTool

\* as ProcessChunk, but a tool completion empties the buffer whatever the metadata setting
ProcessChunkResetsBuffer(h, sr, m, ch) ==
    LET afterTool ==
          IF ch.event = EvToolStarted
          THEN IF m = "ON"
               THEN [h |-> Append(ClearPlaceholder(h),
                                  ChatMessage("assistant", LiveStartedContent(ch.tool), TitleStarted)),
                     sr |-> sr \o <<"\n">> \o <<"\n">>, y |-> TRUE]
               ELSE [h |-> h, sr |-> sr \o <<"\n">>, y |-> FALSE]
          ELSE IF ch.event = EvToolCompleted /\ m = "ON"
          THEN [h |-> Append(Append(ClearPlaceholder(h),
                                    ChatMessage("assistant", LiveCompletedContent(ch.tool), TitleCompleted)),
                             ChatMessage("assistant", <<>>, NoTitle)),
                sr |-> <<>>, y |-> TRUE]
          ELSE [h |-> h, sr |-> IF ch.event = EvToolCompleted THEN <<>> ELSE sr, y |-> FALSE]
    IN  IF ch.event = EvRunContent /\ ch.is_str
        THEN [h |-> ReplaceLast(afterTool.h, ChatMessage("assistant", afterTool.sr \o ch.content, NoTitle)),
              sr |-> afterTool.sr \o ch.content, y |-> TRUE]
        ELSE afterTool

\* The body of the `async for` after the sleep: the new transcript, the new
\* buffer, whether a snapshot is yielded.
ProcessChunk(h, sr, m, ch) ==
    LET afterTool ==
          IF ch.event = EvToolStarted
          THEN IF m = "ON"
               THEN [h |-> Append(ClearPlaceholder(h),
                                  ChatMessage("assistant", LiveStartedContent(ch.tool), TitleStarted)),
                     sr |-> sr \o <<"\n">> \o <<"\n">>, y |-> TRUE]
               ELSE [h |-> h, sr |-> sr \o <<"\n">>, y |-> FALSE]
          ELSE IF ch.event = EvToolCompleted /\ m = "ON"
          THEN [h |-> Append(Append(ClearPlaceholder(h),
                                    ChatMessage("assistant", LiveCompletedContent(ch.tool), TitleCompleted)),
                             ChatMessage("assistant", <<>>, NoTitle)),
                sr |-> <<>>, y |-> TRUE]
          ELSE [h |-> h, sr |-> sr, y |-> FALSE]
    IN  IF ch.event = EvRunContent /\ ch.is_str
        THEN [h |-> ReplaceLast(afterTool.h,
                                ChatMessage("assistant", afterTool.sr \o ch.content, NoTitle)),
              sr |-> afterTool.sr \o ch.content, y |-> TRUE]
        ELSE afterTool

----------------------------------------------------------------------------
(* load_sessions_history: the transcript rebuilt from stored run records *)

\* A stored message; null = the JSON content is null
Msg(role, null, content, name, args, id) ==
    [role |-> role, null |-> null, content |-> content, tool_name |-> name,
     tool_args |-> args, tool_call_id |-> id]

\* A stored event; tool_call_id 0 = the event carries no tool id
StoredEvent(kind, id, at) == [event |-> kind, tool_call_id |-> id, created_at |-> at]

NoTime == -1

\* as ToolTimes, but the end of a call is recorded only after its start
RECURSIVE ToolTimesStartFirst(_)
ToolTimesStartFirst(events) ==
    IF events = <<>> THEN <<>>
    ELSE LET prev == ToolTimesStartFirst(SubSeq(events, 1, Len(events) - 1))
             e == events[Len(events)]
             id == e.tool_call_id
             old == IF \E i \in DOMAIN prev : prev[i].id = id
                    THEN (CHOOSE x \in {prev[i] : i \in DOMAIN prev} : x.id = id)
                    ELSE [id |-> id, start |-> NoTime, end |-> NoTime]
             new == IF e.event = EvToolStarted THEN [old EXCEPT !.start = e.created_at]
                    ELSE IF e.event = EvToolCompleted /\ old.start # NoTime
                    THEN [old EXCEPT !.end = e.created_at]
                    ELSE old
         IN  IF id = 0 THEN prev
             ELSE IF \E i \in DOMAIN prev : prev[i].id = id
             THEN [i \in DOMAIN prev |-> IF prev[i].id = id THEN new ELSE prev[i]]
             ELSE Append(prev, new)

\* tool_times after the scan of the events: id -> [start, end]
RECURSIVE ToolTimes(_)
ToolTimes(events) ==
    IF events = <<>> THEN <<>>
    ELSE LET prev == ToolTimes(SubSeq(events, 1, Len(events) - 1))
             e == events[Len(events)]
             id == e.tool_call_id
             old == IF \E i \in DOMAIN prev : prev[i].id = id
                    THEN (CHOOSE x \in {prev[i] : i \in DOMAIN prev} : x.id = id)
                    ELSE [id |-> id, start |-> NoTime, end |-> NoTime]
             new == IF e.event = EvToolStarted THEN [old EXCEPT !.start = e.created_at]
                    ELSE IF e.event = EvToolCompleted THEN [old EXCEPT !.end = e.created_at]
                    ELSE old
         IN  IF id = 0 THEN prev
             ELSE IF \E i \in DOMAIN prev : prev[i].id = id
             THEN [i \in DOMAIN prev |-> IF prev[i].id = id THEN new ELSE prev[i]]
             ELSE Append(prev, new)

\* as ExecTime, but the difference is taken the other way round
ExecTimeSwapped(times, id) ==
    IF \E i \in DOMAIN times : times[i].id = id
    THEN LET x == CHOOSE y \in {times[i] : i \in DOMAIN times} : y.id = id
         IN  IF x.start # NoTime /\ x.end # NoTime THEN Fmt3(x.start - x.end) ELSE "N/A"
    ELSE "N/A"

ExecTime(times, id) ==
    IF \E i \in DOMAIN times : times[i].id = id
    THEN LET x == CHOOSE y \in {times[i] : i \in DOMAIN times} : y.id = id
         IN  IF x.start # NoTime /\ x.end # NoTime THEN Fmt3(x.end - x.start) ELSE "N/A"
    ELSE "N/A"

ReplayStartedContent(msg) ==
    <<"\n", "**Tool:**", " ", "<bq>", msg.tool_name, "<bq>", "\n",
      "**Arguments:**", " ", "<bq>", msg.tool_args, "<bq>", "\n">>

\* str(None) for a null content, then strip()
ReplayResultText(msg) == Strip(IF msg.null THEN <<"None">> ELSE msg.content)

ReplayCompletedContent(msg, times) ==
    <<"**Results:**", "\n">> \o ReplayResultText(msg)
    \o <<"\n", "**Execution time:**", " ", ExecTime(times, msg.tool_call_id)>>

\* "Trigger LaTeX": a space appended to the content of the last assistant entry
RECURSIVE TouchLastAssistant(_)
TouchLastAssistant(h) ==
    IF h = <<>> THEN h
    ELSE IF h[Len(h)].role = "assistant"
    THEN ReplaceLast(h, [h[Len(h)] EXCEPT !.content = @ \o <<" ">>])
    ELSE Append(TouchLastAssistant(SubSeq(h, 1, Len(h) - 1)), h[Len(h)])

\* as ReplayMessage, but a user message yields no entry
ReplayMessageAssistantOnly(h, msg, times, metaOn, latexOn) ==
    LET h1 == IF metaOn /\ msg.role = "tool"
              THEN Append(Append(h, ChatMessage("assistant", ReplayStartedContent(msg), TitleStarted)),
                          ChatMessage("assistant", ReplayCompletedContent(msg, times), TitleCompleted))
              ELSE IF msg.role = "assistant"
              THEN Append(h, ChatMessage(msg.role, IF msg.null THEN <<>> ELSE msg.content, NoTitle))
              ELSE h
    IN  IF latexOn THEN TouchLastAssistant(h1) ELSE h1

\* as ReplayMessage, but with metadata OFF a tool message is shown as plain text
ReplayMessageToolShown(h, msg, times, metaOn, latexOn) ==
    LET h1 == IF metaOn /\ msg.role = "tool"
              THEN Append(Append(h, ChatMessage("assistant", ReplayStartedContent(msg), TitleStarted)),
                          ChatMessage("assistant", ReplayCompletedContent(msg, times), TitleCompleted))
              ELSE IF msg.role = "tool"
              THEN Append(h, ChatMessage("assistant", ReplayResultText(msg), NoTitle))
              ELSE IF msg.role \in {"user", "assistant"}
              THEN Append(h, ChatMessage(msg.role, IF msg.null THEN <<>> ELSE msg.content, NoTitle))
              ELSE h
    IN  IF latexOn THEN TouchLastAssistant(h1) ELSE h1

\* One pass of the `for msg in messages` body
\* as ReplayMessage, but a tool message yields its completed entry only
ReplayMessageCompletedOnly(h, msg, times, metaOn, latexOn) ==
    LET h1 == IF metaOn /\ msg.role = "tool"
              THEN Append(h, ChatMessage("assistant", ReplayCompletedContent(msg, times), TitleCompleted))
              ELSE IF msg.role \in {"user", "assistant"}
              THEN Append(h, ChatMessage(msg.role, IF msg.null THEN <<>> ELSE msg.content, NoTitle))
              ELSE h
    IN  IF latexOn THEN TouchLastAssistant(h1) ELSE h1

ReplayMessage(h, msg, times, metaOn, latexOn) ==
    LET h1 == IF metaOn /\ msg.role = "tool"
              THEN Append(Append(h, ChatMessage("assistant", ReplayStartedContent(msg), TitleStarted)),
                          ChatMessage("assistant", ReplayCompletedContent(msg, times), TitleCompleted))
              ELSE IF msg.role \in {"user", "assistant"}
              THEN Append(h, ChatMessage(msg.role, IF msg.null THEN <<>> ELSE msg.content, NoTitle))
              ELSE h
    IN  IF latexOn THEN TouchLastAssistant(h1) ELSE h1

RECURSIVE ReplayMessages(_, _, _, _, _)
ReplayMessages(h, msgs, times, metaOn, latexOn) ==
    IF msgs = <<>> THEN h
    ELSE ReplayMessages(ReplayMessage(h, Head(msgs), times, metaOn, latexOn),
                        Tail(msgs), times, metaOn, latexOn)

RECURSIVE ReplayRuns(_, _, _, _)
ReplayRuns(h, runs, metaOn, latexOn) ==
    IF runs = <<>> THEN h
    ELSE ReplayRuns(ReplayMessages(h, Head(runs).messages, ToolTimes(Head(runs).events),
                                   metaOn, latexOn),
                    Tail(runs), metaOn, latexOn)

\* as Dedupe, but the pass stops after the first duplicate it removes
DedupeOnce(h) ==
    LET dup(i) == \E j \in 1..(i - 1) : h[j].role = h[i].role /\ h[j].content = h[i].content
    IN  IF \E i \in DOMAIN h : dup(i)
        THEN LET i == CHOOSE k \in DOMAIN h : dup(k) /\ \A j \in 1..(k - 1) : ~dup(j)
             IN  SubSeq(h, 1, i - 1) \o SubSeq(h, i + 1, Len(h))
        ELSE h

\* as Dedupe, but the identifier is the whole entry, its metadata included
DedupeByEntry(h) ==
    LET first(i) == \A j \in 1..(i - 1) : h[j] # h[i]
        keep == {i \in DOMAIN h : first(i)}
        nth[n \in 0..Len(h)] ==
            IF n = 0 THEN 0 ELSE CHOOSE i \in keep : i > nth[n - 1] /\ \A j \in keep : j > nth[n - 1] => i <= j
    IN  [n \in 1..Cardinality(keep) |-> h[nth[n]]]

\* "Remove duplicates while maintaining order"
RECURSIVE Dedupe(_)
Dedupe(h) ==
    IF h = <<>> THEN <<>>
    ELSE LET front == Dedupe(SubSeq(h, 1, Len(h) - 1))
             last == h[Len(h)]
         IN  IF \E i \in 1..(Len(h) - 1) :
                    h[i].role = last.role /\ h[i].content = last.content
             THEN front
             ELSE Append(front, last)

load_sessions_history(runs, metaOn, latexOn) ==
    Dedupe(ReplayRuns(<<>>, runs, metaOn, latexOn))

\* What fetchone() and the two json.loads make of the row of a session
RowAbsent == "absent"           \* no row: result is None
RowEmpty == "empty"             \* the runs column is NULL or ""
RowUnparsable == "unparsable"   \* the column is not JSON inside JSON
RowDbError == "db_error"        \* connect or execute raises sqlite3.Error
RowRuns == "runs"               \* the column decodes to a list of runs

Row(kind, runs) == [kind |-> kind, runs |-> runs]

\* Shapes the loops do not expect
NotAnObject == "<not-an-object>"   \* a message that is not a dict: msg.get raises
NullTool == "<tool-null>"          \* an event whose "tool" is null: None.get raises
NoRole == ""                       \* a message without "role": msg.get gives None

BadMsg == Msg(NotAnObject, FALSE, <<>>, "", "", 0)
OddMsg == Msg(NoRole, FALSE, <<"a">>, "", "", 0)
BadEvent == StoredEvent(NullTool, 0, 0)

RunRaises(run) ==
    \/ \E i \in DOMAIN run.events : run.events[i].event = NullTool
    \/ \E i \in DOMAIN run.messages : run.messages[i].role = NotAnObject

\* The try body: how it ends and, when it returns, the transcript returned
LoadBody(row, metaOn, latexOn) ==
    IF row.kind = RowDbError THEN [exc |-> "sqlite3.Error", h |-> <<>>]
    ELSE IF row.kind \in {RowAbsent, RowEmpty} THEN [exc |-> "", h |-> <<>>]
    ELSE IF row.kind = RowUnparsable THEN [exc |-> "Exception", h |-> <<>>]
    ELSE IF \E i \in DOMAIN row.runs : RunRaises(row.runs[i])
    THEN [exc |-> "Exception", h |-> <<>>]
    ELSE [exc |-> "", h |-> load_sessions_history(row.runs, metaOn, latexOn)]

\* as LoadResult, but only sqlite3.Error is caught
LoadResultSqliteOnly(row, metaOn, latexOn) ==
    LET r == LoadBody(row, metaOn, latexOn)
    IN  IF r.exc = "" THEN [h |-> r.h, raised |-> FALSE]
        ELSE IF r.exc = "sqlite3.Error" THEN [h |-> <<>>, raised |-> FALSE]
        ELSE [h |-> <<>>, raised |-> TRUE]

\* The call with its except clauses: the transcript, and whether it raised
LoadResult(row, metaOn, latexOn) ==
    LET r == LoadBody(row, metaOn, latexOn)
    IN  IF r.exc = "" THEN [h |-> r.h, raised |-> FALSE]
        ELSE IF r.exc \in {"sqlite3.Error", "Exception"} THEN [h |-> <<>>, raised |-> FALSE]
        ELSE [h |-> <<>>, raised |-> TRUE]

----------------------------------------------------------------------------
(* The run record the agent stores for a run that delivered the events evs *)

RECURSIVE RunMessagesFrom(_, _, _, _)
RunMessagesFrom(msgs, text, inTools, evs) ==
    IF evs = <<>> THEN Append(msgs, Msg("assistant", FALSE, text, "", "", 0))
    ELSE LET e == Head(evs) IN
         IF e.event = EvRunContent /\ e.is_str
         THEN RunMessagesFrom(msgs, text \o e.content, FALSE, Tail(evs))
         ELSE IF e.event = EvToolStarted
         THEN IF inTools THEN RunMessagesFrom(msgs, text, TRUE, Tail(evs))
              ELSE RunMessagesFrom(Append(msgs, Msg("assistant", text = <<>>, text, "", "", 0)),
                                   <<>>, TRUE, Tail(evs))
         ELSE IF e.event = EvToolCompleted
         THEN RunMessagesFrom(Append(msgs, Msg("tool", FALSE, e.tool.result, e.tool.tool_name,
                                               e.tool.tool_args, e.tool.tool_call_id)),
                              text, TRUE, Tail(evs))
         ELSE RunMessagesFrom(msgs, text, inTools, Tail(evs))

RunRecordOf(evs) ==
    [messages |-> RunMessagesFrom(<<Msg("user", FALSE, UserMsg, "", "", 0)>>, <<>>, FALSE, evs),
     events |-> [i \in DOMAIN evs |->
                   StoredEvent(evs[i].event, evs[i].tool.tool_call_id, evs[i].created_at)]]

----------------------------------------------------------------------------
(* get_response, non-streaming path: the entries appended for a response *)

RECURSIVE LastUserIndex(_)
LastUserIndex(msgs) ==
    IF msgs = <<>> THEN 0
    ELSE IF msgs[Len(msgs)].role = "user" THEN Len(msgs)
    ELSE LastUserIndex(SubSeq(msgs, 1, Len(msgs) - 1))

BatchStartedContent(msg) ==
    <<"\n", "**Tool:**", " ", "<bq>", msg.tool_name, "<bq>", "\n",
      "**Arguments:**", " ", "<bq>", msg.tool_args, "<bq>", "\n">>

BatchCompletedContent(msg) ==
    <<"**Results:**", "\n">> \o (IF msg.null \/ msg.content = <<>> THEN <<>> ELSE Strip(msg.content))
    \o <<"\n", "**Execution time:**", " ", "N/A">>

RECURSIVE BatchAppend(_, _, _)
BatchAppend(h, msgs, m) ==
    IF msgs = <<>> THEN h
    ELSE LET msg == Head(msgs)
             h1 == IF m = "ON" /\ msg.role = "tool"
                   THEN Append(Append(h, ChatMessage("assistant", BatchStartedContent(msg), TitleStarted)),
                               ChatMessage("assistant", BatchCompletedContent(msg), TitleCompleted))
                   ELSE IF msg.role = "assistant"
                   THEN Append(h, ChatMessage("assistant", IF msg.null THEN <<>> ELSE msg.content, NoTitle))
                   ELSE h
         IN  BatchAppend(h1, Tail(msgs), m)

\* as ProcessResponse, but every message of the response is gone through
ProcessResponseAllMessages(h, msgs, m) ==
    BatchAppend(ClearPlaceholder(h), msgs, m)

ProcessResponse(h, msgs, m) ==
    BatchAppend(ClearPlaceholder(h), SubSeq(msgs, LastUserIndex(msgs) + 1, Len(msgs)), m)

Response1 == <<Msg("user", FALSE, UserMsg, "", "", 0), Msg("assistant", FALSE, <<"a">>, "", "", 0)>>
Response2 == <<Msg("user", FALSE, <<"old">>, "", "", 0), Msg("assistant", FALSE, <<"x">>, "", "", 0),
               Msg("user", FALSE, UserMsg, "", "", 0), Msg("assistant", TRUE, <<>>, "", "", 0),
               Msg("tool", FALSE, <<"r", "\n">>, "search", "q", 1),
               Msg("assistant", FALSE, <<"a">>, "", "", 0)>>
Response3 == <<Msg("user", FALSE, UserMsg, "", "", 0), Msg("assistant", TRUE, <<>>, "", "", 0)>>

----------------------------------------------------------------------------
(* Scenarios *)

AllKinds == {EvToolStarted, EvToolCompleted, EvRunContent, EvRunStarted}

\* one turn at a time, every event kind, every response
SoloEnv == [turns |-> 1, events |-> MaxEvents, kinds |-> AllKinds, metas |-> {"ON", "OFF"},
            fragments |-> Fragments, responses |-> {Response1, Response2, Response3}]

\* overlapping turns of several conversations, short runs
ConcEnv == [turns |-> MaxTurns, events |-> ConcEvents, kinds |-> {EvRunContent}, metas |-> {"ON"},
            fragments |-> {<<"a">>}, responses |-> {Response1}]

----------------------------------------------------------------------------
(* Initial state *)

NotLoaded == [set |-> FALSE, meta |-> FALSE, latex |-> FALSE, h |-> <<>>, raised |-> FALSE]
NotListed == [set |-> FALSE, user |-> "", ids |-> <<>>, raised |-> FALSE]
NoSession == ""                 \* session_radio has no value
NotDeleted == [set |-> FALSE, user |-> "", session_id |-> NoSession, ids |-> <<>>,
               h |-> <<>>, raised |-> FALSE]
DbOk == "ok"                    \* the database opens and has the table
DbUnreachable == "unreachable"  \* connect or execute raises sqlite3.Error
DbNoTable == "no_table"         \* the agent has not created agent_sessions yet

IdleUi == [interactive |-> TRUE, stop_visible |-> FALSE]
NoCancelPoint == [set |-> FALSE, h |-> <<>>, sr |-> <<>>, chunk |-> NoChunk]

InitWith(e) ==
    /\ running_agent = None
    /\ current_run_id = None
    /\ pc = [t \in Turns |-> "idle"]
    /\ conv = [t \in Turns |-> "c1"]
    /\ meta = [t \in Turns |-> "ON"]
    /\ strm = [t \in Turns |-> "ON"]
    /\ chat_history = [t \in Turns |-> <<>>]
    /\ stream_response = [t \in Turns |-> <<>>]
    /\ chunk = [t \in Turns |-> NoChunk]
    /\ emitted = [t \in Turns |-> <<>>]
    /\ session \in {f \in [Convs -> Sessions] : f["c1"] = "s1"}
    /\ ui = [c \in Convs |-> IdleUi]
    /\ shown = [c \in Convs |-> <<>>]
    /\ snaps = [t \in Turns |-> 0]
    /\ cancelled = {}
    /\ cancel_log = <<>>
    /\ stops = <<>>
    /\ at_cancel = [t \in Turns |-> NoCancelPoint]
    /\ env = e
    /\ store = Row(RowAbsent, <<>>)
    /\ loaded = NotLoaded
    /\ db = [status |-> DbOk, rows |-> <<>>]
    /\ listed = NotListed
    /\ deleted = NotDeleted

Init == InitWith(SoloEnv)
InitConc == InitWith(ConcEnv)

----------------------------------------------------------------------------
(* get_response *)

\* a yield: the conversation's input, stop button and chatbot are updated
Snapshot(t, c, h, interactive, stop_visible) ==
    /\ ui' = [ui EXCEPT ![c] = [interactive |-> interactive, stop_visible |-> stop_visible]]
    /\ shown' = [shown EXCEPT ![c] = h]
    /\ snaps' = [snaps EXCEPT ![t] = @ + 1]

NoSnapshot == UNCHANGED <<ui, shown, snaps>>

\* as ErrorPath, but the transcript is reduced to the user entry and the error entry
ErrorPathDropsEarlier(t) ==
    LET h == <<ChatMessage("user", UserMsg, NoTitle), ChatMessage("assistant", ErrorMsg, NoTitle)>>
    IN  /\ chat_history' = [chat_history EXCEPT ![t] = h]
        /\ Snapshot(t, conv[t], h, TRUE, FALSE)
        /\ pc' = [pc EXCEPT ![t] = "err_yield"]

\* the except clause: the last entry becomes the error entry, terminal snapshot
ErrorPath(t) ==
    LET h == ReplaceLast(chat_history[t], ChatMessage("assistant", ErrorMsg, NoTitle))
    IN  /\ chat_history' = [chat_history EXCEPT ![t] = h]
        /\ Snapshot(t, conv[t], h, TRUE, FALSE)
        /\ pc' = [pc EXCEPT ![t] = "err_yield"]

\* msg.submit: the user entry and the placeholder are appended, first snapshot
Start(t, c, m, s) ==
    /\ pc[t] = "idle"
    /\ t <= env.turns
    /\ \A u \in Turns : u < t => pc[u] # "idle"
    /\ ui[c].interactive
    /\ (\A u \in Turns : pc[u] = "idle") => c = "c1"
    /\ m \in env.metas
    /\ LET h == shown[c] \o <<ChatMessage("user", UserMsg, NoTitle),
                              ChatMessage("assistant", Placeholder, NoTitle)>>
       IN  /\ chat_history' = [chat_history EXCEPT ![t] = h]
           /\ Snapshot(t, c, h, FALSE, FALSE)
    /\ conv' = [conv EXCEPT ![t] = c]
    /\ meta' = [meta EXCEPT ![t] = m]
    /\ strm' = [strm EXCEPT ![t] = s]
    /\ pc' = [pc EXCEPT ![t] = "get_agent"]
    /\ UNCHANGED <<running_agent, current_run_id, stream_response, chunk, emitted,
                   cancelled, cancel_log, stops, at_cancel, session, env, storeVars>>

\* await get_agent(...) returns: the handle is recorded
GetAgentReturns(t) ==
    /\ pc[t] = "get_agent"
    /\ running_agent' = t
    /\ stream_response' = [stream_response EXCEPT ![t] = <<>>]
    /\ pc' = [pc EXCEPT ![t] = "mcp_enter"]
    /\ NoSnapshot
    /\ UNCHANGED <<current_run_id, conv, meta, strm, chat_history, chunk, emitted,
                   cancelled, cancel_log, stops, at_cancel, session, env, storeVars>>

\* await get_agent(...) raises: outside the try, the exception leaves the handler
GetAgentRaises(t) ==
    /\ pc[t] = "get_agent"
    /\ pc' = [pc EXCEPT ![t] = "done"]
    /\ NoSnapshot
    /\ UNCHANGED <<running_agent, current_run_id, conv, meta, strm, chat_history,
                   stream_response, chunk, emitted, cancelled, cancel_log, stops,
                   at_cancel, session, env, storeVars>>

\* async with MultiMCPTools(...) entered: the agent run is started
McpEntered(t) ==
    /\ pc[t] = "mcp_enter"
    /\ pc' = [pc EXCEPT ![t] = IF strm[t] = "ON" THEN "await_chunk" ELSE "await_response"]
    /\ NoSnapshot
    /\ UNCHANGED <<running_agent, current_run_id, conv, meta, strm, chat_history,
                   stream_response, chunk, emitted, cancelled, cancel_log, stops,
                   at_cancel, session, env, storeVars>>

\* async with MultiMCPTools(...) raises on entry
McpRaises(t) ==
    /\ pc[t] = "mcp_enter"
    /\ ErrorPath(t)
    /\ UNCHANGED <<running_agent, current_run_id, conv, meta, strm,
                   stream_response, chunk, emitted, cancelled, cancel_log, stops,
                   at_cancel, session, env, storeVars>>

CancelSeen(t) ==
    \E i \in DOMAIN emitted[t] : emitted[t][i].event = EvRunCancelled

\* as ReceiveChunk, but the run id is recorded for content events only
ReceiveChunkContentOnly(t, e) ==
    /\ current_run_id' = IF e.event = EvRunContent THEN e.run_id ELSE current_run_id
    /\ chunk' = [chunk EXCEPT ![t] = e]
    /\ emitted' = [emitted EXCEPT ![t] = Append(@, e)]
    /\ pc' = [pc EXCEPT ![t] = "sleep"]
    /\ NoSnapshot
    /\ UNCHANGED <<running_agent, conv, meta, strm, chat_history, stream_response,
                   cancelled, cancel_log, stops, at_cancel, session, env, storeVars>>

\* the stream delivers a chunk: current_run_id = chunk.run_id, then the sleep
ReceiveChunk(t, e) ==
    /\ current_run_id' = e.run_id
    /\ chunk' = [chunk EXCEPT ![t] = e]
    /\ emitted' = [emitted EXCEPT ![t] = Append(@, e)]
    /\ pc' = [pc EXCEPT ![t] = "sleep"]
    /\ NoSnapshot
    /\ UNCHANGED <<running_agent, conv, meta, strm, chat_history, stream_response,
                   cancelled, cancel_log, stops, at_cancel, session, env, storeVars>>

\* the agent delivers the next event of the run
AgentEmits(t) ==
    /\ pc[t] = "await_chunk"
    /\ t \notin cancelled
    /\ Len(emitted[t]) < env.events
    /\ \E e \in NextEvents(t, emitted[t]) :
          /\ e.event \in env.kinds
          /\ e.is_str => e.content \in env.fragments
          /\ ReceiveChunk(t, e)

\* a run whose cancellation was requested halts at its next emission boundary
AgentEmitsCancelled(t) ==
    /\ pc[t] = "await_chunk"
    /\ t \in cancelled
    /\ ~CancelSeen(t)
    /\ ReceiveChunk(t, Event(EvRunCancelled, t, TRUE, <<"cancelled">>, NoTool,
                             Len(emitted[t]) + 1))

\* as ProcessStep, but the text buffer is one buffer shared by all turns
ProcessStepSharedBuffer(t) ==
    /\ pc[t] = "sleep"
    /\ LET r == ProcessChunk(chat_history[t], stream_response[1], meta[t], chunk[t])
       IN  /\ chat_history' = [chat_history EXCEPT ![t] = r.h]
           /\ stream_response' = [u \in Turns |-> r.sr]
           /\ IF r.y THEN Snapshot(t, conv[t], r.h, FALSE, TRUE) ELSE NoSnapshot
    /\ chunk' = [chunk EXCEPT ![t] = NoChunk]
    /\ pc' = [pc EXCEPT ![t] = "await_chunk"]
    /\ UNCHANGED <<running_agent, current_run_id, conv, meta, strm, emitted,
                   cancelled, cancel_log, stops, at_cancel, session, env, storeVars>>

\* after await asyncio.sleep(STREAM_DELAY): the chunk is processed
ProcessStep(t) ==
    /\ pc[t] = "sleep"
    /\ LET r == ProcessChunk(chat_history[t], stream_response[t], meta[t], chunk[t])
       IN  /\ chat_history' = [chat_history EXCEPT ![t] = r.h]
           /\ stream_response' = [stream_response EXCEPT ![t] = r.sr]
           /\ IF r.y THEN Snapshot(t, conv[t], r.h, FALSE, TRUE) ELSE NoSnapshot
    /\ chunk' = [chunk EXCEPT ![t] = NoChunk]
    /\ pc' = [pc EXCEPT ![t] = "await_chunk"]
    /\ UNCHANGED <<running_agent, current_run_id, conv, meta, strm, emitted,
                   cancelled, cancel_log, stops, at_cancel, session, env, storeVars>>

\* as Complete, but the input is left disabled
CompleteInputDisabled(t, h) ==
    /\ chat_history' = [chat_history EXCEPT ![t] = h]
    /\ Snapshot(t, conv[t], h, FALSE, FALSE)
    /\ pc' = [pc EXCEPT ![t] = "final_yield"]

\* the completion: "Update sessions after completion", the terminal snapshot
Complete(t, h) ==
    /\ chat_history' = [chat_history EXCEPT ![t] = h]
    /\ Snapshot(t, conv[t], h, TRUE, FALSE)
    /\ pc' = [pc EXCEPT ![t] = "final_yield"]

\* as StreamEnds, but a cancelled run is finalized through the except clause
StreamEndsCancelAsError(t) ==
    /\ pc[t] = "await_chunk"
    /\ IF t \in cancelled THEN CancelSeen(t) ELSE OpenIds(emitted[t]) = {}
    /\ IF t \in cancelled THEN ErrorPath(t) ELSE Complete(t, chat_history[t])
    /\ UNCHANGED <<running_agent, current_run_id, conv, meta, strm, stream_response,
                   chunk, emitted, cancelled, cancel_log, stops, at_cancel, session, env, storeVars>>

\* the stream ends normally
StreamEnds(t) ==
    /\ pc[t] = "await_chunk"
    /\ IF t \in cancelled THEN CancelSeen(t) ELSE OpenIds(emitted[t]) = {}
    /\ Complete(t, chat_history[t])
    /\ UNCHANGED <<running_agent, current_run_id, conv, meta, strm, stream_response,
                   chunk, emitted, cancelled, cancel_log, stops, at_cancel, session, env, storeVars>>

\* the agent raises while streaming
StreamRaises(t) ==
    /\ pc[t] = "await_chunk"
    /\ t \notin cancelled
    /\ ErrorPath(t)
    /\ UNCHANGED <<running_agent, current_run_id, conv, meta, strm, stream_response,
                   chunk, emitted, cancelled, cancel_log, stops, at_cancel, session, env, storeVars>>

\* await agent.arun(stream=False) returns
ResponseReturns(t) ==
    /\ pc[t] = "await_response"
    /\ \E resp \in env.responses :
          Complete(t, ProcessResponse(chat_history[t], resp, meta[t]))
    /\ UNCHANGED <<running_agent, current_run_id, conv, meta, strm, stream_response,
                   chunk, emitted, cancelled, cancel_log, stops, at_cancel, session, env, storeVars>>

\* await agent.arun(stream=False) raises
ResponseRaises(t) ==
    /\ pc[t] = "await_response"
    /\ ErrorPath(t)
    /\ UNCHANGED <<running_agent, current_run_id, conv, meta, strm, stream_response,
                   chunk, emitted, cancelled, cancel_log, stops, at_cancel, session, env, storeVars>>

\* resumed after the terminal snapshot: the tool context is left, finally;
\* the call is over and its locals are gone
Finish(t) ==
    /\ pc[t] \in {"final_yield", "err_yield"}
    /\ running_agent' = None
    /\ pc' = [pc EXCEPT ![t] = "done"]
    /\ chat_history' = [chat_history EXCEPT ![t] = <<>>]
    /\ stream_response' = [stream_response EXCEPT ![t] = <<>>]
    /\ emitted' = [emitted EXCEPT ![t] = <<>>]
    /\ at_cancel' = [at_cancel EXCEPT ![t] = NoCancelPoint]
    /\ NoSnapshot
    /\ UNCHANGED <<current_run_id, conv, meta, strm, chunk, cancelled, cancel_log, stops, session, env, storeVars>>

\* resumed after the completion snapshot: leaving the tool context raises
McpExitRaises(t) ==
    /\ pc[t] = "final_yield"
    /\ ErrorPath(t)
    /\ UNCHANGED <<running_agent, current_run_id, conv, meta, strm, stream_response,
                   chunk, emitted, cancelled, cancel_log, stops, at_cancel, session, env, storeVars>>

----------------------------------------------------------------------------
(* stop_agent_running_stream *)

\* the runs that are delivering events or computing a response
InFlight(t) == pc[t] \in {"await_chunk", "sleep", "await_response"}

\* agent.cancel_run(run_id): the run with that id, if one is going, is flagged
CancelRun(run) ==
    IF run \in Turns /\ InFlight(run) /\ run \notin cancelled
    THEN /\ cancelled' = cancelled \cup {run}
         /\ at_cancel' = [at_cancel EXCEPT ![run] =
                [set |-> TRUE, h |-> chat_history[run], sr |-> stream_response[run],
                 chunk |-> chunk[run]]]
    ELSE UNCHANGED <<cancelled, at_cancel>>

\* as Stop, but without the `is not None` test
StopNoCheck(c) ==
    /\ ui[c].stop_visible
    /\ Len(stops) < MaxStops
    /\ stops' = Append(stops, c)
    /\ cancel_log' = Append(cancel_log,
          [agent |-> running_agent, run_id |-> current_run_id, from |-> c])
    /\ CancelRun(current_run_id)
    /\ running_agent' = None
    /\ NoSnapshot
    /\ UNCHANGED <<current_run_id, pc, conv, meta, strm, chat_history, stream_response,
                   chunk, emitted, session, env, storeVars>>

\* btn_stop.click in chat UI c
Stop(c) ==
    /\ ui[c].stop_visible
    /\ Len(stops) < MaxStops
    /\ stops' = Append(stops, c)
    /\ IF running_agent # None
       THEN /\ cancel_log' = Append(cancel_log,
                 [agent |-> running_agent, run_id |-> current_run_id, from |-> c])
            /\ CancelRun(current_run_id)
            /\ running_agent' = None
       ELSE UNCHANGED <<cancel_log, cancelled, at_cancel, running_agent>>
    /\ NoSnapshot
    /\ UNCHANGED <<current_run_id, pc, conv, meta, strm, chat_history, stream_response,
                   chunk, emitted, session, env, storeVars>>

----------------------------------------------------------------------------
(* The stored record of a session, and its reload *)

ToolMsg == Msg("tool", FALSE, <<"r", "\n">>, "search", "q", 1)
\* an assistant message whose text is the text of a tool entry
EchoMsg == Msg("assistant", FALSE, ReplayStartedContent(ToolMsg), "", "", 0)

StoredMsgs ==
    {Msg("user", FALSE, UserMsg, "", "", 0), Msg("assistant", FALSE, <<"a">>, "", "", 0),
     ToolMsg, EchoMsg, OddMsg, BadMsg}

StoredEvents ==
    {StoredEvent(EvToolStarted, 1, 1), StoredEvent(EvToolCompleted, 1, 4),
     StoredEvent(EvToolCompleted, 2, 4), StoredEvent(EvRunContent, 0, 1), BadEvent}

EmptyRun == [messages |-> <<>>, events |-> <<>>]

RECURSIVE Stored(_)
Stored(runs) ==
    IF runs = <<>> THEN 0
    ELSE Len(Head(runs).messages) + Len(Head(runs).events) + Stored(Tail(runs))

\* the row of the session is missing, empty, undecodable, or the database fails
RowBecomes(k) ==
    /\ store.runs = <<>>
    /\ store.kind # k
    /\ store' = Row(k, <<>>)
    /\ loaded' = NotLoaded
    /\ UNCHANGED <<liveVars, db, listed, deleted>>

\* the agent begins the record of a run, once the run before has a message
AgentStoresRun ==
    /\ store.kind \in {RowAbsent, RowEmpty, RowRuns}
    /\ Len(store.runs) < MaxRuns
    /\ store.runs # <<>> => Last(store.runs).messages # <<>>
    /\ store' = Row(RowRuns, Append(store.runs, EmptyRun))
    /\ loaded' = NotLoaded
    /\ UNCHANGED <<liveVars, db, listed, deleted>>

\* the agent adds a message to the record of the run
AgentStoresMessage(m) ==
    /\ store.runs # <<>>
    /\ Stored(store.runs) < MaxStored
    /\ store' = [store EXCEPT !.runs[Len(store.runs)].messages = Append(@, m)]
    /\ loaded' = NotLoaded
    /\ UNCHANGED <<liveVars, db, listed, deleted>>

\* the agent adds an event to the record of the run (store_events)
AgentStoresEvent(e) ==
    /\ store.runs # <<>>
    /\ Stored(store.runs) < MaxStored
    /\ store' = [store EXCEPT !.runs[Len(store.runs)].events = Append(@, e)]
    /\ loaded' = NotLoaded
    /\ UNCHANGED <<liveVars, db, listed, deleted>>

\* session_radio.change: the session is reloaded with the two radio settings
LoadSession(metaOn, latexOn) ==
    /\ LET r == LoadResult(store, metaOn, latexOn)
       IN  loaded' = [set |-> TRUE, meta |-> metaOn, latex |-> latexOn,
                      h |-> r.h, raised |-> r.raised]
    /\ UNCHANGED <<liveVars, store, db, listed, deleted>>

NextReplay ==
    \/ \E k \in {RowAbsent, RowEmpty, RowUnparsable, RowDbError} : RowBecomes(k)
    \/ AgentStoresRun
    \/ \E m \in StoredMsgs : AgentStoresMessage(m)
    \/ \E e \in StoredEvents : AgentStoresEvent(e)
    \/ \E metaOn \in BOOLEAN, latexOn \in BOOLEAN : LoadSession(metaOn, latexOn)

----------------------------------------------------------------------------
(* The agent_sessions table and the list of a user's sessions *)

Users == {"u1", "u2"}

Reverse(q) == [i \in DOMAIN q |-> q[Len(q) + 1 - i]]

\* The try body: how it ends and the session_ids it has collected
SessionIdsBody(d, username) ==
    IF d.status = DbUnreachable THEN [exc |-> "sqlite3.Error", ids |-> <<>>]
    ELSE IF d.status = DbNoTable THEN [exc |-> "", ids |-> <<>>]
    ELSE LET mine == SelectSeq(d.rows, LAMBDA row : row.user_id = username)
         IN  [exc |-> "", ids |-> [i \in DOMAIN mine |-> mine[i].session_id]]

\* as get_session_ids_from_db, but without the except clauses
get_session_ids_unguarded(d, username) ==
    LET r == SessionIdsBody(d, username)
    IN  [ids |-> Reverse(r.ids), raised |-> r.exc # ""]

\* The call with its except clauses: the choices returned, and whether it raised
get_session_ids_from_db(d, username) ==
    LET r == SessionIdsBody(d, username)
    IN  [ids |-> Reverse(r.ids), raised |-> r.exc \notin {"", "sqlite3.Error", "Exception"}]

\* the database becomes unreachable, loses its table, or is back
DbBecomes(st) ==
    /\ db.status # st
    /\ db' = [status |-> st, rows |-> IF st = DbNoTable THEN <<>> ELSE db.rows]
    /\ listed' = NotListed
    /\ deleted' = NotDeleted
    /\ UNCHANGED <<liveVars, store, loaded>>

\* the agent stores the first run of a session of a user
AgentStoresSession(u, sid) ==
    /\ db.status = DbOk
    /\ Len(db.rows) < MaxRows
    /\ \A i \in DOMAIN db.rows : db.rows[i] # [user_id |-> u, session_id |-> sid]
    /\ db' = [db EXCEPT !.rows = Append(@, [user_id |-> u, session_id |-> sid])]
    /\ listed' = NotListed
    /\ deleted' = NotDeleted
    /\ UNCHANGED <<liveVars, store, loaded>>

\* the session list of a user is refreshed
ListSessions(u) ==
    /\ LET r == get_session_ids_from_db(db, u)
       IN  listed' = [set |-> TRUE, user |-> u, ids |-> r.ids, raised |-> r.raised]
    /\ UNCHANGED <<liveVars, store, loaded, db, deleted>>

\* as DeleteBody, but the row is selected by its session id alone
DeleteBodyAnyUser(d, session_id, username) ==
    IF session_id = NoSession THEN [exc |-> "", rows |-> d.rows]
    ELSE IF d.status \in {DbUnreachable, DbNoTable} THEN [exc |-> "sqlite3.Error", rows |-> d.rows]
    ELSE [exc |-> "",
          rows |-> SelectSeq(d.rows, LAMBDA row : ~(row.session_id = session_id))]

\* The try body of delete_session_from_db: how it ends and the rows it leaves
DeleteBody(d, session_id, username) ==
    IF session_id = NoSession THEN [exc |-> "", rows |-> d.rows]
    ELSE IF d.status \in {DbUnreachable, DbNoTable} THEN [exc |-> "sqlite3.Error", rows |-> d.rows]
    ELSE [exc |-> "",
          rows |-> SelectSeq(d.rows, LAMBDA row :
                       ~(row.session_id = session_id /\ row.user_id = username))]

\* The call with its except clauses: the table it leaves, the session choices and
\* the transcript it returns, and whether it raised
delete_session_from_db(d, session_id, username) ==
    LET r == DeleteBody(d, session_id, username)
        after == [d EXCEPT !.rows = r.rows]
        ids == get_session_ids_from_db(after, username)
    IN  [db |-> after, ids |-> ids.ids, h |-> <<>>,
         raised |-> r.exc \notin {"", "sqlite3.Error", "Exception"} \/ ids.raised]

\* delete_session_btn.click with the session selected in session_radio
DeleteSession(u, sid) ==
    /\ LET r == delete_session_from_db(db, sid, u)
       IN  /\ db' = r.db
           /\ deleted' = [set |-> TRUE, user |-> u, session_id |-> sid, ids |-> r.ids,
                          h |-> r.h, raised |-> r.raised]
           /\ listed' = [set |-> TRUE, user |-> u, ids |-> r.ids, raised |-> r.raised]
    /\ UNCHANGED <<liveVars, store, loaded>>

NextStore ==
    \/ \E st \in {DbOk, DbUnreachable, DbNoTable} : DbBecomes(st)
    \/ \E u \in Users, sid \in Sessions : AgentStoresSession(u, sid)
    \/ \E u \in Users : ListSessions(u)
    \/ \E u \in Users, sid \in Sessions \cup {NoSession} : DeleteSession(u, sid)

----------------------------------------------------------------------------
(* Specifications *)

Next ==
    \/ \E t \in Turns, c \in Convs, m \in {"ON", "OFF"}, s \in {"ON", "OFF"} : Start(t, c, m, s)
    \/ \E t \in Turns : GetAgentReturns(t)
    \/ \E t \in Turns : GetAgentRaises(t)
    \/ \E t \in Turns : McpEntered(t)
    \/ \E t \in Turns : McpRaises(t)
    \/ \E t \in Turns : AgentEmits(t)
    \/ \E t \in Turns : AgentEmitsCancelled(t)
    \/ \E t \in Turns : ProcessStep(t)
    \/ \E t \in Turns : StreamEnds(t)
    \/ \E t \in Turns : StreamRaises(t)
    \/ \E t \in Turns : ResponseReturns(t)
    \/ \E t \in Turns : ResponseRaises(t)
    \/ \E t \in Turns : Finish(t)
    \/ \E t \in Turns : McpExitRaises(t)
    \/ \E c \in Convs : Stop(c)


\* the steps of streaming turns alone: no stop request is made
NextStreams ==
    \/ \E t \in Turns, c \in Convs, m \in {"ON", "OFF"} : Start(t, c, m, "ON")
    \/ \E t \in Turns : GetAgentReturns(t)
    \/ \E t \in Turns : McpEntered(t)
    \/ \E t \in Turns : AgentEmits(t)
    \/ \E t \in Turns : ProcessStep(t)
    \/ \E t \in Turns : StreamEnds(t)
    \/ \E t \in Turns : StreamRaises(t)
    \/ \E t \in Turns : Finish(t)

Spec == Init /\ [][Next]_vars
SpecConc == InitConc /\ [][Next]_vars
SpecStreams == InitConc /\ [][NextStreams]_vars
SpecReplay == Init /\ [][NextReplay]_vars
SpecStore == Init /\ [][NextStore]_vars

TypeOK == \A t \in Turns : pc[t] \in {"idle", "get_agent", "mcp_enter", "await_chunk", "sleep",
                                       "await_response", "final_yield", "err_yield", "done"}

----------------------------------------------------------------------------
(* Claims *)

UserEntry == ChatMessage("user", UserMsg, NoTitle)
ErrorEntry == ChatMessage("assistant", ErrorMsg, NoTitle)
PlaceholderEntry == ChatMessage("assistant", Placeholder, NoTitle)
EmptyEntry == ChatMessage("assistant", <<>>, NoTitle)

SessionOf(t) == session[conv[t]]

\* the placeholder of a transcript read as the empty entry it stands for
PlaceholderAsEmpty(h) == [i \in DOMAIN h |-> IF h[i] = PlaceholderEntry THEN EmptyEntry ELSE h[i]]
\* the placeholder of a transcript left out
RECURSIVE PlaceholderDropped(_)
PlaceholderDropped(h) ==
    IF h = <<>> THEN <<>>
    ELSE IF Head(h) = PlaceholderEntry THEN PlaceholderDropped(Tail(h))
    ELSE <<Head(h)>> \o PlaceholderDropped(Tail(h))

SameModuloPlaceholder(live, replay) ==
    \/ live = replay
    \/ PlaceholderAsEmpty(live) = replay
    \/ PlaceholderDropped(live) = replay

\* C1: with tool metadata ON, when a stream has ended normally, the live
\* transcript equals, entry for entry (role, content, marker), the transcript
\* load_sessions_history rebuilds from the stored record of that run, the
\* placeholder aside.
C1_LiveEqualsReplay ==
    \A t \in Turns :
        (pc[t] = "final_yield" /\ strm[t] = "ON" /\ meta[t] = "ON" /\ t \notin cancelled)
        => SameModuloPlaceholder(chat_history[t],
                                 load_sessions_history(<<RunRecordOf(emitted[t])>>, TRUE, FALSE))

\* C2: while a generation of the caller's conversation and a generation of
\* another conversation are both in flight, a stop never issues a request
\* against the other conversation's agent or run id, and cancels no run of it.
C2_CancelStaysInConversation ==
    [][(Len(cancel_log') = Len(cancel_log) + 1) =>
        LET r == Last(cancel_log') IN
          ((\E t \in Turns : InFlight(t) /\ SessionOf(t) = session[r.from])
            /\ (\E u \in Turns : InFlight(u) /\ SessionOf(u) # session[r.from]))
          => /\ SessionOf(r.agent) = session[r.from]
             /\ r.run_id # None => SessionOf(r.run_id) = session[r.from]
             /\ \A u \in cancelled' \ cancelled : SessionOf(u) = session[r.from]]_vars

\* a turn between its first snapshot and its terminal snapshot
Active(t) == pc[t] \in {"get_agent", "mcp_enter", "await_chunk", "sleep", "await_response"}

\* C3: at most one turn per conversation is between its first snapshot and its
\* terminal snapshot.
C3_SingleFlight ==
    \A t, u \in Turns :
        (t # u /\ Active(t) /\ Active(u)) => SessionOf(t) # SessionOf(u)

\* C4: every cancellation request carries the run id of the generation that is
\* in flight on the handle it is issued on.
C4_CancelTargetsRunOfHandle ==
    \A i \in DOMAIN cancel_log : cancel_log[i].run_id = cancel_log[i].agent

\* C5: receiving an event of any kind records that event's run id, before the
\* event changes the transcript or the buffer.
C5_RunIdOnEveryEvent ==
    [][\A t \in Turns :
         (pc[t] = "await_chunk" /\ pc'[t] = "sleep")
         => /\ current_run_id' = chunk'[t].run_id
            /\ chunk'[t].run_id = t
            /\ chat_history'[t] = chat_history[t]
            /\ stream_response'[t] = stream_response[t]]_vars

C5_Witness ==
    \E t \in Turns :
        /\ pc[t] = "sleep"
        /\ chunk[t].event = EvRunStarted
        /\ Len(emitted[t]) >= 2
        /\ current_run_id = t

\* C6: a stop while no handle is recorded issues no request and changes neither
\* the handle, the recorded run id, any transcript nor any run.
C6_StopWithoutHandleIsNoOp ==
    [][(Len(stops') = Len(stops) + 1 /\ running_agent = None)
       => UNCHANGED <<running_agent, current_run_id, cancel_log, cancelled, pc,
                      chat_history, stream_response, shown, ui>>]_vars

C6_Witness ==
    /\ Len(cancel_log) < Len(stops)
    /\ running_agent = None
    /\ \E t \in Turns : InFlight(t)

\* a turn that has recorded the handle and whose generation has not ended
Generating(t) == pc[t] \in {"mcp_enter", "await_chunk", "sleep", "await_response"}

\* C7: whenever no generation is in flight, the handle is empty.
C7_HandleReleased ==
    (\A t \in Turns : ~Generating(t)) => running_agent = None

\* a step of stop_agent_running_stream called from chat UI c
StopBy(c) == stops' = Append(stops, c)

\* C8: a stop issued from a chat UI while its turn is streaming results in a
\* cancellation request for that turn's generation.
C8_StopCancelsOwnGeneration ==
    [][\A c \in Convs : \A t \in Turns :
         (StopBy(c) /\ conv[t] = c /\ pc[t] \in {"await_chunk", "sleep"})
         => t \in cancelled']_vars

\* the stream of a cancelled turn t ends in this step
CancelledStreamEnds(t) ==
    /\ pc[t] = "await_chunk"
    /\ pc'[t] \in {"final_yield", "err_yield"}
    /\ at_cancel[t].set

\* C9 as stated: when the stream of a cancelled turn ends, the turn's terminal
\* snapshot shows the transcript as it stood when the cancel was issued, and
\* the handle is empty.
C9_TranscriptAsAtCancel ==
    [][\A t \in Turns :
         CancelledStreamEnds(t)
         => chat_history'[t] = at_cancel[t].h /\ running_agent' = None]_vars

\* the transcript at the cancel, with the event that was already received and
\* waiting in the sleep applied to it
AfterPendingChunk(t) ==
    IF at_cancel[t].chunk = NoChunk THEN at_cancel[t].h
    ELSE ProcessChunk(at_cancel[t].h, at_cancel[t].sr, meta[t], at_cancel[t].chunk).h

\* C9 amended: when the stream of a cancelled turn ends, the turn's terminal
\* snapshot shows the transcript as it stood when the cancel was issued,
\* extended by the one event that had been received before the cancel and not
\* yet processed; no entry is the error entry; the handle is empty.
C9_Amended ==
    [][\A t \in Turns :
         CancelledStreamEnds(t)
         => /\ chat_history'[t] = AfterPendingChunk(t)
            /\ shown'[conv[t]] = AfterPendingChunk(t)
            /\ \A i \in DOMAIN chat_history'[t] : chat_history'[t][i] # ErrorEntry
            /\ running_agent' = None]_vars

C9_Witness ==
    \E t \in Turns :
        /\ pc[t] = "final_yield"
        /\ at_cancel[t].set
        /\ at_cancel[t].chunk # NoChunk
        /\ chat_history[t] # at_cancel[t].h
        /\ Len(chat_history[t]) > 2

\* the entries of a transcript that have content
RECURSIVE WithContent(_)
WithContent(h) ==
    IF h = <<>> THEN <<>>
    ELSE IF Head(h).content = <<>> THEN WithContent(Tail(h))
    ELSE <<Head(h)>> \o WithContent(Tail(h))

\* C10: when the agent raises, the turn's transcript keeps nothing of the failed
\* run: what has content is the user entry and the single error entry.
C10_FailureDiscardsPartial ==
    [][\A t \in Turns :
         (pc[t] \in {"await_chunk", "await_response"} /\ pc'[t] = "err_yield")
         => WithContent(chat_history'[t]) = <<UserEntry, ErrorEntry>>]_vars

\* the step in which the stream, or the non-streaming invocation, ends normally
CompletesNormally(t) ==
    pc[t] \in {"await_chunk", "await_response"} /\ pc'[t] = "final_yield"

\* a step in which turn t emits a snapshot that is not a terminal one
EmitsEarlierSnapshot(t) ==
    snaps'[t] = snaps[t] + 1 /\ pc'[t] \notin {"final_yield", "err_yield"}

\* C11: when the stream or the non-streaming invocation ends normally, the turn
\* emits one snapshot in which the input is interactive again and the stop
\* button is hidden; every snapshot the turn emitted before has the input disabled.
C11_NormalCompletionSnapshot ==
    [][\A t \in Turns :
          /\ CompletesNormally(t) =>
                /\ snaps'[t] = snaps[t] + 1
                /\ ui'[conv'[t]] = [interactive |-> TRUE, stop_visible |-> FALSE]
                /\ shown'[conv'[t]] = chat_history'[t]
          /\ EmitsEarlierSnapshot(t) => ~ui'[conv'[t]].interactive]_vars

\* a streamed turn that completed after the first snapshot and two more
C11_Witness ==
    \E t \in Turns : /\ pc[t] = "final_yield"
                      /\ snaps[t] >= 4
                      /\ strm[t] = "ON"
                      /\ ui[conv[t]] = [interactive |-> TRUE, stop_visible |-> FALSE]

\* C12: every turn that emitted its first snapshot emits a terminal snapshot that
\* re-enables the input, however the run ends, agent construction and tool setup
\* included: the call never ends from a position other than a terminal snapshot.
C12_TurnEndsFinalized ==
    [][\A t \in Turns :
          (pc[t] # "done" /\ pc'[t] = "done") => pc[t] \in {"final_yield", "err_yield"}]_vars

\* C20: no entry of the transcript of a terminal snapshot is the placeholder.
C20_PlaceholderTransient ==
    \A t \in Turns :
        pc[t] \in {"final_yield", "err_yield"} =>
            \A i \in DOMAIN chat_history[t] : chat_history[t][i].content # Placeholder

\* the positions of the events of one kind that carry tool-call id `id`
EventsOf(run, kind, id) ==
    {i \in DOMAIN run.events : run.events[i].event = kind /\ run.events[i].tool_call_id = id}

\* no tool-call id has two started or two completed events in the run
UniqueToolEvents(run) ==
    \A i, j \in DOMAIN run.events :
        (/\ run.events[i].tool_call_id # 0
         /\ run.events[i].tool_call_id = run.events[j].tool_call_id
         /\ run.events[i].event = run.events[j].event) => i = j

\* the time the run's events give for tool message m
ExpectedTime(run, m) ==
    LET S == EventsOf(run, EvToolStarted, m.tool_call_id)
        C == EventsOf(run, EvToolCompleted, m.tool_call_id)
    IN  IF m.tool_call_id # 0 /\ S # {} /\ C # {}
        THEN Fmt3(run.events[CHOOSE c \in C : TRUE].created_at
                  - run.events[CHOOSE b \in S : TRUE].created_at)
        ELSE "N/A"

CompletedEntry(m, time) ==
    ChatMessage("assistant",
                <<"**Results:**", "\n">> \o ReplayResultText(m)
                   \o <<"\n", "**Execution time:**", " ", time>>,
                TitleCompleted)

\* a reload that went through the loops: the row decodes and no element raises
LoadedRuns ==
    /\ loaded.set
    /\ store.kind = RowRuns
    /\ \A r \in DOMAIN store.runs : ~RunRaises(store.runs[r])

ToolMessagesOf(run) == {i \in DOMAIN run.messages : run.messages[i].role = "tool"}

\* C13: with metadata ON, the completed entry of a tool message with id A shows the
\* created_at of A's ToolCallCompleted event minus that of A's ToolCallStarted event
\* when the run has both, and "N/A" when one is missing or no event carries A.
C13_TimingCorrect ==
    (LoadedRuns /\ loaded.meta /\ ~loaded.latex
       /\ \A r \in DOMAIN store.runs : UniqueToolEvents(store.runs[r]))
    => /\ \A r \in DOMAIN store.runs : \A i \in ToolMessagesOf(store.runs[r]) :
             \E k \in DOMAIN loaded.h :
                 loaded.h[k] = CompletedEntry(store.runs[r].messages[i],
                                             ExpectedTime(store.runs[r], store.runs[r].messages[i]))
       /\ \A k \in DOMAIN loaded.h :
             loaded.h[k].title = TitleCompleted =>
                 \E r \in DOMAIN store.runs : \E i \in ToolMessagesOf(store.runs[r]) :
                     loaded.h[k] = CompletedEntry(store.runs[r].messages[i],
                                                 ExpectedTime(store.runs[r], store.runs[r].messages[i]))

\* a reloaded run with the started event at 1 and the completed event at 4
C13_Witness ==
    /\ LoadedRuns /\ loaded.meta /\ ~loaded.latex
    /\ Len(store.runs) = 1
    /\ store.runs[1].messages = <<ToolMsg>>
    /\ store.runs[1].events = <<StoredEvent(EvToolStarted, 1, 1), StoredEvent(EvToolCompleted, 1, 4)>>
    /\ loaded.h[2] = CompletedEntry(ToolMsg, "3.000s")

\* the transcript the loops built, before the duplicates are removed
Raw == ReplayRuns(<<>>, store.runs, loaded.meta, loaded.latex)

SamePair(x, y) == x.role = y.role /\ x.content = y.content

\* C14: removing duplicates from a transcript that already went through the
\* removal changes nothing.
C14_DedupeIdempotent ==
    LoadedRuns => /\ loaded.h = Dedupe(Raw)
                  /\ Dedupe(loaded.h) = loaded.h

\* a reload whose loops produced the same (role, content) pair three times
C14_Witness ==
    /\ LoadedRuns
    /\ Len(Raw) = 3
    /\ Len(loaded.h) = 1

RECURSIVE IsSubSeq(_, _)
IsSubSeq(a, b) ==
    IF a = <<>> THEN TRUE
    ELSE IF b = <<>> THEN FALSE
    ELSE IF Head(a) = Head(b) THEN IsSubSeq(Tail(a), Tail(b))
    ELSE IsSubSeq(a, Tail(b))

\* the first position of the pair of entry x in transcript h
FirstOf(h, x) == CHOOSE i \in DOMAIN h : SamePair(h[i], x) /\ \A j \in 1..(i - 1) : ~SamePair(h[j], x)

\* C15: the output of the duplicate removal is a sub-sequence of its input, holds
\* every (role, content) pair of the input exactly once, at the entry where the
\* pair first occurs; entries that differ only in metadata are the same pair.
C15_DedupeKeepsFirst ==
    LoadedRuns =>
        /\ IsSubSeq(loaded.h, Raw)
        /\ \A i \in DOMAIN Raw :
              Cardinality({k \in DOMAIN loaded.h : SamePair(loaded.h[k], Raw[i])}) = 1
        /\ \A k \in DOMAIN loaded.h : loaded.h[k] = Raw[FirstOf(Raw, loaded.h[k])]
        /\ \A k, l \in DOMAIN loaded.h :
              k < l => FirstOf(Raw, loaded.h[k]) < FirstOf(Raw, loaded.h[l])

\* a reload in which an assistant message repeats the text of a tool entry: the
\* two entries differ in their title only, and the later one is dropped
C15_Witness ==
    /\ LoadedRuns
    /\ \E i, j \in DOMAIN Raw : i < j /\ SamePair(Raw[i], Raw[j]) /\ Raw[i].title # Raw[j].title
    /\ Len(loaded.h) = Len(Raw) - 1
    /\ Len(loaded.h) >= 2

\* the transcript the same reload gives with metadata ON
WithMetadata == LoadResult(store, TRUE, loaded.latex).h

\* a is a sub-sequence of b, entries compared by role and content
RECURSIVE IsSubSeqOfPairs(_, _)
IsSubSeqOfPairs(a, b) ==
    IF a = <<>> THEN TRUE
    ELSE IF b = <<>> THEN FALSE
    ELSE IF SamePair(Head(a), Head(b)) THEN IsSubSeqOfPairs(Tail(a), Tail(b))
    ELSE IsSubSeqOfPairs(a, Tail(b))

ToolDerived(x) == x.title # NoTitle

\* C16: the transcript rebuilt with metadata OFF is a sub-sequence of the one
\* rebuilt with metadata ON, holds no tool-derived entry, and its entries have the
\* role and content they have with metadata ON.
C16_MetadataOffIsSubsequence ==
    (LoadedRuns /\ ~loaded.meta) =>
        /\ \A k \in DOMAIN loaded.h : ~ToolDerived(loaded.h[k])
        /\ IsSubSeqOfPairs(loaded.h, WithMetadata)

\* some message of the record has the role and text of a tool-derived entry
TextOfToolEntry ==
    \E k \in DOMAIN WithMetadata, r \in DOMAIN store.runs :
        \E i \in DOMAIN store.runs[r].messages :
            /\ ToolDerived(WithMetadata[k])
            /\ store.runs[r].messages[i].role = WithMetadata[k].role
            /\ store.runs[r].messages[i].content = WithMetadata[k].content

\* C16 as it holds: with the math delimiters OFF, the transcript rebuilt with
\* metadata OFF holds no tool-derived entry, each of its entries has the role and
\* content of an entry of the transcript rebuilt with metadata ON, and it is a
\* sub-sequence of that transcript unless a message has the text of a tool entry.
C16_Amended ==
    (LoadedRuns /\ ~loaded.meta /\ ~loaded.latex) =>
        /\ \A k \in DOMAIN loaded.h : ~ToolDerived(loaded.h[k])
        /\ \A k \in DOMAIN loaded.h : \E l \in DOMAIN WithMetadata : SamePair(loaded.h[k], WithMetadata[l])
        /\ ~TextOfToolEntry => IsSubSeqOfPairs(loaded.h, WithMetadata)

\* a record with a tool message between two messages, reloaded with metadata OFF
C16_Witness ==
    /\ LoadedRuns /\ ~loaded.meta /\ ~loaded.latex
    /\ ~TextOfToolEntry
    /\ Len(loaded.h) = 2
    /\ Len(WithMetadata) = 4

\* the record of one run: a user message, a tool message, an assistant message
UserToolAssistant ==
    /\ Len(store.runs) = 1
    /\ store.runs[1].messages = <<Msg("user", FALSE, UserMsg, "", "", 0), ToolMsg,
                                  Msg("assistant", FALSE, <<"a">>, "", "", 0)>>

\* C17: the reload emits no entry for a stored user message; the record
\* [user, tool, assistant] reloaded with metadata OFF is the assistant entry alone.
C17_NoUserEntries ==
    LoadedRuns =>
        /\ \A k \in DOMAIN loaded.h : loaded.h[k].role # "user"
        /\ (UserToolAssistant /\ ~loaded.meta /\ ~loaded.latex)
              => loaded.h = <<ChatMessage("assistant", <<"a">>, NoTitle)>>

\* C17 as it holds: the reload emits a user entry for the stored user messages,
\* once per distinct text, and no other user entry; the record [user, tool,
\* assistant] reloaded with metadata OFF is the user entry and the assistant entry.
C17_Amended ==
    LoadedRuns =>
        /\ \A r \in DOMAIN store.runs : \A i \in DOMAIN store.runs[r].messages :
              store.runs[r].messages[i].role = "user" =>
                  Cardinality({k \in DOMAIN loaded.h :
                                  /\ loaded.h[k].role = "user"
                                  /\ loaded.h[k].content = store.runs[r].messages[i].content}) = 1
        /\ \A k \in DOMAIN loaded.h :
              loaded.h[k].role = "user" =>
                  \E r \in DOMAIN store.runs : \E i \in DOMAIN store.runs[r].messages :
                      /\ store.runs[r].messages[i].role = "user"
                      /\ store.runs[r].messages[i].content = loaded.h[k].content
        /\ (UserToolAssistant /\ ~loaded.meta /\ ~loaded.latex)
              => loaded.h = <<UserEntry, ChatMessage("assistant", <<"a">>, NoTitle)>>

\* the record [user, tool, assistant] reloaded with metadata OFF
C17_Witness ==
    /\ LoadedRuns /\ ~loaded.meta /\ ~loaded.latex
    /\ UserToolAssistant
    /\ Len(loaded.h) = 2

\* an element of the record whose shape the loops do not expect
UnexpectedShape ==
    \E r \in DOMAIN store.runs :
        \/ \E i \in DOMAIN store.runs[r].messages : store.runs[r].messages[i] \in {BadMsg, OddMsg}
        \/ \E i \in DOMAIN store.runs[r].events : store.runs[r].events[i] = BadEvent

\* C18: when the stored record is absent, empty, unparsable, or has a run, message
\* or event of an unexpected shape, the reload returns an empty transcript and
\* does not raise.
C18_MalformedGivesEmpty ==
    (loaded.set /\ (store.kind \in {RowAbsent, RowEmpty, RowUnparsable} \/ UnexpectedShape))
        => (loaded.h = <<>> /\ ~loaded.raised)

\* the record without the messages that have no role
WithoutOdd ==
    Row(store.kind,
        [r \in DOMAIN store.runs |->
            [store.runs[r] EXCEPT !.messages = SelectSeq(@, LAMBDA m : m.role # NoRole)]])

\* C18 as it holds: the reload never raises; it returns an empty transcript when
\* the row is absent, empty or unparsable, when the database fails, and when an
\* element makes the loops fail (a message that is not an object, an event whose
\* tool is null); a message it can read but that has no role is skipped and the
\* rest of the record is rebuilt.
C18_Amended ==
    loaded.set =>
        /\ ~loaded.raised
        /\ (\/ store.kind \in {RowAbsent, RowEmpty, RowUnparsable, RowDbError}
            \/ \E r \in DOMAIN store.runs : RunRaises(store.runs[r])) => loaded.h = <<>>
        /\ (LoadedRuns /\ ~loaded.latex)
              => loaded.h = LoadResult(WithoutOdd, loaded.meta, loaded.latex).h

\* a reload of a record whose second message is not an object
C18_Witness ==
    /\ loaded.set
    /\ store.kind = RowRuns
    /\ Len(store.runs) = 1
    /\ store.runs[1].messages = <<Msg("assistant", FALSE, <<"a">>, "", "", 0), BadMsg>>
    /\ loaded.h = <<>>
    /\ ~loaded.raised

\* the sessions of the user of the last listing, newest first
SessionsOfListedUser ==
    LET mine == SelectSeq(db.rows, LAMBDA row : row.user_id = listed.user)
    IN  [i \in DOMAIN mine |-> mine[Len(mine) + 1 - i].session_id]

\* C19: when the database is unreachable or the sessions table is missing, the
\* session list returned is empty and the call does not raise; when it is there,
\* the list is the user's sessions.
C19_StoreFailureGivesEmptyList ==
    listed.set =>
        /\ ~listed.raised
        /\ db.status \in {DbUnreachable, DbNoTable} => listed.ids = <<>>
        /\ db.status = DbOk => listed.ids = SessionsOfListedUser

\* a listing for a user who has two sessions, while the database is unreachable
C19_Witness ==
    /\ listed.set
    /\ db.status = DbUnreachable
    /\ Cardinality({i \in DOMAIN db.rows : db.rows[i].user_id = listed.user}) = 2
    /\ listed.ids = <<>>
    /\ ~listed.raised

NoAdjacentPair(h) == \A i \in 1..(Len(h) - 1) : ~SamePair(h[i], h[i + 1])

\* C21: no transcript, shown by a snapshot of a live turn or returned by a reload,
\* has two adjacent entries with the same role and content.
C21_NoAdjacentDuplicates ==
    /\ \A c \in Convs : NoAdjacentPair(shown[c])
    /\ NoAdjacentPair(loaded.h)

\* the transcript the same reload gives with the math delimiters OFF
WithoutLatex == LoadResult(store, loaded.meta, FALSE).h

\* the position of the last assistant entry of h, 0 when there is none
LastAssistant(h) ==
    IF \E i \in DOMAIN h : h[i].role = "assistant"
    THEN CHOOSE i \in DOMAIN h : h[i].role = "assistant" /\ \A j \in DOMAIN h : j > i => h[j].role # "assistant"
    ELSE 0

\* C22: the transcript reloaded with the math delimiters ON has the entries of the
\* one reloaded with them OFF, in the same order, and differs from it only by one
\* space appended to the content of the last assistant entry.
C22_LatexPassCosmetic ==
    (LoadedRuns /\ loaded.latex) =>
        /\ Len(loaded.h) = Len(WithoutLatex)
        /\ \A k \in DOMAIN loaded.h :
              loaded.h[k] = IF k = LastAssistant(WithoutLatex)
                            THEN [WithoutLatex[k] EXCEPT !.content = @ \o <<" ">>]
                            ELSE WithoutLatex[k]

\* the step in which turn t, after the stream delay, processes a chunk of one kind
Processes(t, kind) ==
    pc[t] = "sleep" /\ pc'[t] = "await_chunk" /\ chunk[t].event = kind

\* text sub occurs in text q
Contains(q, sub) ==
    \E i \in 0..(Len(q) - Len(sub)) : SubSeq(q, i + 1, i + Len(sub)) = sub

\* C23: on ToolCallCompleted with metadata ON the turn appends a ToolCallCompleted
\* entry with the result text and the duration, or the result text and "N/A" when
\* there is no duration, then an empty assistant entry; it empties the buffer and
\* emits one snapshot.
C23_CompletedEntryCarriesResult ==
    [][\A t \in Turns :
          (Processes(t, EvToolCompleted) /\ meta[t] = "ON") =>
              LET n == Len(chat_history[t])
                  h2 == chat_history'[t]
                  tool == chunk[t].tool
              IN  /\ Len(h2) = n + 2
                  /\ h2[n + 1].role = "assistant"
                  /\ h2[n + 1].title = TitleCompleted
                  /\ Contains(h2[n + 1].content, tool.result)
                  /\ Contains(h2[n + 1].content,
                              IF tool.metrics # NoMetrics THEN <<Fmt4(tool.metrics)>> ELSE <<"N/A">>)
                  /\ h2[n + 2] = EmptyEntry
                  /\ stream_response'[t] = <<>>
                  /\ snaps'[t] = snaps[t] + 1
                  /\ shown'[conv[t]] = h2]_vars

\* C24: on ToolCallStarted with metadata ON the turn replaces a trailing placeholder
\* by an empty assistant entry, appends one ToolCallStarted entry with the tool name
\* and arguments, and emits one snapshot; the transcript is one entry longer.
C24_StartedEntryAppended ==
    [][\A t \in Turns :
          (Processes(t, EvToolStarted) /\ meta[t] = "ON") =>
              LET h == chat_history[t]
                  n == Len(h)
                  h2 == chat_history'[t]
              IN  /\ Len(h2) = n + 1
                  /\ SubSeq(h2, 1, n) = IF h[n] = PlaceholderEntry THEN ReplaceLast(h, EmptyEntry) ELSE h
                  /\ h2[n + 1].role = "assistant"
                  /\ h2[n + 1].title = TitleStarted
                  /\ Contains(h2[n + 1].content, <<chunk[t].tool.tool_name>>)
                  /\ Contains(h2[n + 1].content, <<chunk[t].tool.tool_args>>)
                  /\ snaps'[t] = snaps[t] + 1
                  /\ shown'[conv[t]] = h2]_vars

\* a turn whose first event was a tool start, shown with metadata ON
C24_Witness ==
    \E t \in Turns :
        /\ pc[t] = "await_chunk" /\ meta[t] = "ON"
        /\ Len(chat_history[t]) = 3
        /\ chat_history[t][2] = EmptyEntry
        /\ chat_history[t][3].title = TitleStarted
        /\ snaps[t] = 2

\* C25: on RunContent with text the transcript keeps its length, its last entry
\* becomes an assistant entry holding the whole buffer after the fragment was
\* appended, and one snapshot is emitted, with metadata ON or OFF.
C25_ContentAccumulatesInPlace ==
    [][\A t \in Turns :
          (Processes(t, EvRunContent) /\ chunk[t].is_str) =>
              LET h == chat_history[t]
                  n == Len(h)
                  h2 == chat_history'[t]
              IN  /\ Len(h2) = n
                  /\ SubSeq(h2, 1, n - 1) = SubSeq(h, 1, n - 1)
                  /\ stream_response'[t] = stream_response[t] \o chunk[t].content
                  /\ h2[n] = ChatMessage("assistant", stream_response'[t], NoTitle)
                  /\ snaps'[t] = snaps[t] + 1
                  /\ shown'[conv[t]] = h2]_vars

\* a turn with metadata OFF that received the fragments "a" and "b"
C25_Witness ==
    \E t \in Turns :
        /\ pc[t] = "await_chunk" /\ meta[t] = "OFF"
        /\ chat_history[t] = <<UserEntry, ChatMessage("assistant", <<"a", "b">>, NoTitle)>>
        /\ snaps[t] = 3

\* C26: with metadata OFF, ToolCallStarted and ToolCallCompleted leave the
\* transcript as it is and emit no snapshot; ToolCallStarted adds a newline to the
\* buffer, ToolCallCompleted leaves the buffer as it is.
C26_ToolEventsAbsorbed ==
    [][\A t \in Turns :
          ((Processes(t, EvToolStarted) \/ Processes(t, EvToolCompleted)) /\ meta[t] = "OFF") =>
              /\ chat_history'[t] = chat_history[t]
              /\ snaps' = snaps
              /\ shown' = shown
              /\ ui' = ui
              /\ stream_response'[t] = IF chunk[t].event = EvToolStarted
                                       THEN stream_response[t] \o <<"\n">>
                                       ELSE stream_response[t]]_vars

\* a turn with metadata OFF that received a tool start and its completion
C26_Witness ==
    \E t \in Turns :
        /\ pc[t] = "await_chunk" /\ meta[t] = "OFF"
        /\ Len(emitted[t]) = 2
        /\ emitted[t][1].event = EvToolStarted /\ emitted[t][2].event = EvToolCompleted
        /\ chat_history[t] = <<UserEntry, PlaceholderEntry>>
        /\ stream_response[t] = <<"\n">>
        /\ snaps[t] = 1

\* C27: during a turn the transcript never gets shorter and only its last entry is
\* replaced: every entry before the last one is left as it is, on the error path
\* too; the turn starts from the transcript on screen, followed by its user entry
\* and the placeholder.
C27_OnlyLastEntryReplaced ==
    [][\A t \in Turns :
          /\ (pc[t] \notin {"idle", "done"} /\ pc'[t] # "done") =>
                /\ Len(chat_history'[t]) >= Len(chat_history[t])
                /\ \A i \in 1..(Len(chat_history[t]) - 1) : chat_history'[t][i] = chat_history[t][i]
                /\ snaps'[t] # snaps[t] => shown'[conv[t]] = chat_history'[t]
          /\ (pc[t] = "idle" /\ pc'[t] # "idle") =>
                chat_history'[t] = shown[conv'[t]] \o <<UserEntry, PlaceholderEntry>>]_vars

\* a second turn of a conversation that failed: the entries of the first turn,
\* its user entry and the error entry
C27_Witness ==
    \E t \in Turns :
        /\ pc[t] = "err_yield"
        /\ Len(chat_history[t]) = 4
        /\ chat_history[t][1] = UserEntry
        /\ chat_history[t][2] = ChatMessage("assistant", <<"a">>, NoTitle)
        /\ chat_history[t][3] = UserEntry
        /\ chat_history[t][4] = ErrorEntry

\* the transcript and the buffer of a turn that runs alone on the events evs
RECURSIVE RunAlone(_, _)
RunAlone(evs, m) ==
    IF evs = <<>> THEN [h |-> <<UserEntry, PlaceholderEntry>>, sr |-> <<>>]
    ELSE LET f == RunAlone(SubSeq(evs, 1, Len(evs) - 1), m)
             r == ProcessChunk(f.h, f.sr, m, evs[Len(evs)])
         IN  [h |-> r.h, sr |-> r.sr]

\* h ends with the entries of own
EndsWith(h, own) ==
    /\ Len(h) >= Len(own)
    /\ SubSeq(h, Len(h) - Len(own) + 1, Len(h)) = own

\* C28: whatever the other turns do in between, after every step a streaming
\* turn's entries since its user entry and its text buffer are those of the turn
\* running alone on the events it has processed, and every snapshot it emits,
\* the completion snapshot included, shows exactly that transcript
C28_TurnsDoNotInterfere ==
    [][\A t \in Turns :
          /\ (strm'[t] = "ON" /\ pc'[t] \in {"await_chunk", "sleep"}) =>
                LET evs == IF pc'[t] = "sleep"
                           THEN SubSeq(emitted'[t], 1, Len(emitted'[t]) - 1)
                           ELSE emitted'[t]
                    own == RunAlone(evs, meta'[t])
                IN  /\ EndsWith(chat_history'[t], own.h)
                    /\ stream_response'[t] = own.sr
                    /\ snaps'[t] # snaps[t] => shown'[conv'[t]] = chat_history'[t]
          /\ (pc[t] = "await_chunk" /\ pc'[t] = "final_yield") =>
                /\ EndsWith(chat_history'[t], RunAlone(emitted[t], meta[t]).h)
                /\ shown'[conv[t]] = chat_history'[t]]_vars

\* two turns in different conversations, both between two events, each with one
\* fragment processed
C28_Witness ==
    \E t, u \in Turns :
        /\ conv[t] # conv[u]
        /\ pc[t] = "await_chunk" /\ pc[u] = "await_chunk"
        /\ Len(emitted[t]) = 1 /\ Len(emitted[u]) = 1
        /\ stream_response[t] = <<"a">> /\ stream_response[u] = <<"a">>
        /\ shown[conv[t]] = chat_history[t] /\ shown[conv[u]] = chat_history[u]

IsToolMessage(m) == m.role = "tool"

\* the tool messages of a run in stored order, each with its looked-up duration
ToolPairsOfRun(run) ==
    LET ms == SelectSeq(run.messages, IsToolMessage)
    IN  [i \in 1..Len(ms) |->
            [msg |-> ms[i], time |-> ExecTime(ToolTimes(run.events), ms[i].tool_call_id)]]

RECURSIVE ToolPairs(_)
ToolPairs(runs) ==
    IF runs = <<>> THEN <<>> ELSE ToolPairsOfRun(Head(runs)) \o ToolPairs(Tail(runs))

StartedEntry(m) == ChatMessage("assistant", ReplayStartedContent(m), TitleStarted)

\* q without the spaces at its end
RECURSIVE WithoutTrailingSpaces(_)
WithoutTrailingSpaces(q) ==
    IF q # <<>> /\ q[Len(q)] = " " THEN WithoutTrailingSpaces(SubSeq(q, 1, Len(q) - 1)) ELSE q

\* an entry without the spaces the LaTeX pass may have added
Touched(x) == [x EXCEPT !.content = WithoutTrailingSpaces(@)]

\* the tool-derived entries of h are, in order, a started entry and a completed
\* entry (up to the spaces of the LaTeX pass) per tool message of the record,
\* each pair consecutive in h
TwoEntriesPerToolMessage(h) ==
    LET titled == SelectSeq(h, ToolDerived)
        pairs == ToolPairs(store.runs)
    IN  /\ Len(titled) = 2 * Len(pairs)
        /\ \A j \in DOMAIN pairs :
              /\ titled[2 * j - 1] = StartedEntry(pairs[j].msg)
              /\ Touched(titled[2 * j]) = CompletedEntry(pairs[j].msg, pairs[j].time)
        /\ \A k \in DOMAIN h :
              h[k].title = TitleStarted => k < Len(h) /\ h[k + 1].title = TitleCompleted

\* C29: in the transcript a reload returns, with metadata ON every stored tool
\* message has given exactly two consecutive entries, the started entry with name
\* and arguments and the completed entry with result text and duration or "N/A";
\* with metadata OFF no entry is tool-derived.
C29_ToolMessageGivesTwoEntries ==
    LoadedRuns =>
        IF loaded.meta THEN TwoEntriesPerToolMessage(loaded.h)
        ELSE \A k \in DOMAIN loaded.h : ~ToolDerived(loaded.h[k])

NoRepeats(h) == \A i, j \in DOMAIN h : i < j => ~SamePair(h[i], h[j])

\* C29 amended: the message loop appends, with metadata ON, exactly two
\* consecutive entries per stored tool message, in stored order: the started
\* entry as is, the completed entry up to the spaces of the LaTeX pass; the
\* removal of duplicates that follows may drop either of them, and when the loop
\* produced no repeated (role, content) pair the transcript returned has them
\* all; with metadata OFF no entry is tool-derived.
C29_Amended ==
    LoadedRuns =>
        /\ IF loaded.meta
           THEN TwoEntriesPerToolMessage(Raw)
           ELSE /\ \A k \in DOMAIN Raw : ~ToolDerived(Raw[k])
                /\ \A k \in DOMAIN loaded.h : ~ToolDerived(loaded.h[k])
        /\ NoRepeats(Raw) => loaded.h = Raw
        /\ \A k \in DOMAIN loaded.h : \E i \in DOMAIN Raw : loaded.h[k] = Raw[i]

\* a record with the same tool message twice, reloaded with metadata ON: the loop
\* appended four entries, the transcript returned holds the first two
C29_Witness ==
    /\ LoadedRuns /\ loaded.meta /\ ~loaded.latex
    /\ Len(store.runs) = 1
    /\ store.runs[1].messages = <<ToolMsg, ToolMsg>>
    /\ Len(Raw) = 4
    /\ loaded.h = <<StartedEntry(ToolMsg), CompletedEntry(ToolMsg, "N/A")>>

\* the events of a run in the order p
Permuted(events, p) == [i \in DOMAIN events |-> events[p[i]]]

\* the record with the events of run r in the order p
WithEventsPermuted(r, p) ==
    [store EXCEPT !.runs[r].events = Permuted(store.runs[r].events, p)]

TimingEntries(events) == LET tt == ToolTimes(events) IN {tt[i] : i \in DOMAIN tt}

\* C30: when no tool-call id has two started or two completed events in a run,
\* the events of the run taken in any other order give the same timing entries,
\* and the reload of the record with the events in that order gives the
\* transcript the reload gave.
C30_EventOrderIrrelevant ==
    (loaded.set /\ store.kind = RowRuns) =>
        \A r \in DOMAIN store.runs :
            UniqueToolEvents(store.runs[r]) =>
                \A p \in Permutations(DOMAIN store.runs[r].events) :
                    /\ ~RunRaises(store.runs[r]) =>
                          TimingEntries(Permuted(store.runs[r].events, p))
                              = TimingEntries(store.runs[r].events)
                    /\ LoadResult(WithEventsPermuted(r, p), loaded.meta, loaded.latex)
                          = [h |-> loaded.h, raised |-> loaded.raised]

\* a reloaded run whose completed event (at 4) is stored before its started
\* event (at 1): the entry shows the three seconds
C30_Witness ==
    /\ LoadedRuns /\ loaded.meta /\ ~loaded.latex
    /\ Len(store.runs) = 1
    /\ store.runs[1].messages = <<ToolMsg>>
    /\ store.runs[1].events = <<StoredEvent(EvToolCompleted, 1, 4), StoredEvent(EvToolStarted, 1, 1)>>
    /\ loaded.h = <<StartedEntry(ToolMsg), CompletedEntry(ToolMsg, "3.000s")>>

\* the textual fragments of evs in stream order, one newline for each tool start
RECURSIVE Stitched(_)
Stitched(evs) ==
    IF evs = <<>> THEN <<>>
    ELSE LET e == evs[Len(evs)]
             front == Stitched(SubSeq(evs, 1, Len(evs) - 1))
         IN  IF e.event = EvToolStarted THEN front \o <<"\n">>
             ELSE IF e.event = EvRunContent /\ e.is_str THEN front \o e.content
             ELSE front

\* C31: with metadata OFF, the transcript of the completion snapshot of a
\* streaming turn is the user entry and one assistant entry whose content is the
\* run's textual fragments in stream order with one newline per ToolCallStarted.
C31_BufferNeverReset ==
    \A t \in Turns :
        (pc[t] = "final_yield" /\ strm[t] = "ON" /\ meta[t] = "OFF") =>
            chat_history[t] = <<UserEntry, ChatMessage("assistant", Stitched(emitted[t]), NoTitle)>>

\* the last event of evs is a textual fragment
EndsWithFragment(evs) ==
    evs # <<>> /\ evs[Len(evs)].event = EvRunContent /\ evs[Len(evs)].is_str

\* the same for the runs whose last event is a textual fragment
StitchedWhenFragmentIsLast ==
    \A t \in Turns :
        (pc[t] = "final_yield" /\ strm[t] = "ON" /\ meta[t] = "OFF" /\ EndsWithFragment(emitted[t])) =>
            chat_history[t] = <<UserEntry, ChatMessage("assistant", Stitched(emitted[t]), NoTitle)>>

\* the rows of the table other than the row of (username, session_id), in order
RowsBut(rows, username, session_id) ==
    SelectSeq(rows, LAMBDA row : row # [user_id |-> username, session_id |-> session_id])

\* C32: a call of delete_session_from_db leaves every row but the row of the
\* given (user, session) pair as it was and removes that row when the table can
\* be reached; with no session selected or a failing database the table is
\* unchanged; in every outcome the call returns the empty transcript and does
\* not raise.
C32_DeleteRemovesExactlyOneRow ==
    [][(deleted'.set /\ <<db, deleted>>' # <<db, deleted>>) =>
          /\ db'.status = db.status
          /\ db'.rows = IF deleted'.session_id = NoSession \/ db.status # DbOk
                        THEN db.rows
                        ELSE RowsBut(db.rows, deleted'.user, deleted'.session_id)
          /\ deleted'.h = <<>>
          /\ ~deleted'.raised]_vars

\* both users have a session s1, and u1's has just been deleted: u2's is there
C32_Witness ==
    /\ deleted.set /\ deleted.user = "u1" /\ deleted.session_id = "s1"
    /\ db.status = DbOk
    /\ [user_id |-> "u2", session_id |-> "s1"] \in {db.rows[i] : i \in DOMAIN db.rows}
    /\ [user_id |-> "u1", session_id |-> "s2"] \in {db.rows[i] : i \in DOMAIN db.rows}
    /\ Len(db.rows) = 2
    /\ deleted.ids = <<"s2">>
    /\ deleted.h = <<>>

\* C33: when a streaming turn with metadata ON processes a RunContent event,
\* every ToolCallStarted or ToolCallCompleted entry of its transcript stays where
\* it is and as it is.
C33_ToolEntriesNotOverwritten ==
    [][\A t \in Turns :
          (Processes(t, EvRunContent) /\ meta[t] = "ON") =>
              \A i \in DOMAIN chat_history[t] :
                  ToolDerived(chat_history[t][i]) =>
                      /\ i \in DOMAIN chat_history'[t]
                      /\ chat_history'[t][i] = chat_history[t][i]]_vars

\* C34: a turn emits at most one terminal snapshot: once the completion snapshot
\* or the error snapshot is out, the turn emits no further snapshot, its
\* transcript is not changed, and it does not take the error path.
C34_OneTerminalSnapshot ==
    [][\A t \in Turns :
          pc[t] \in {"final_yield", "err_yield"} =>
              /\ snaps'[t] = snaps[t]
              /\ pc'[t] \in {pc[t], "done"}
              /\ pc'[t] = pc[t] => chat_history'[t] = chat_history[t]]_vars

\* the reconstructions of the runs one by one, concatenated in stored order
RECURSIVE RunByRun(_, _, _)
RunByRun(runs, metaOn, latexOn) ==
    IF runs = <<>> THEN <<>>
    ELSE load_sessions_history(<<Head(runs)>>, metaOn, latexOn)
         \o RunByRun(Tail(runs), metaOn, latexOn)

\* C35: the transcript a reload returns for a session is the concatenation, in
\* stored order, of the reconstructions of its runs (LaTeX pass OFF, so that the
\* entries compare as stored).
C35_RunsReconstructedSeparately ==
    (LoadedRuns /\ ~loaded.latex) =>
        loaded.h = RunByRun(store.runs, loaded.meta, loaded.latex)

\* the entries one message of a response is displayed as
DisplayedAs(msg, m) ==
    IF msg.role = "assistant"
    THEN <<ChatMessage("assistant", IF msg.null THEN <<>> ELSE msg.content, NoTitle)>>
    ELSE IF msg.role = "tool" /\ m = "ON"
    THEN <<ChatMessage("assistant",
                       <<"\n", "**Tool:**", " ", "<bq>", msg.tool_name, "<bq>", "\n",
                         "**Arguments:**", " ", "<bq>", msg.tool_args, "<bq>", "\n">>,
                       TitleStarted),
           ChatMessage("assistant",
                       <<"**Results:**", "\n">> \o (IF msg.null THEN <<>> ELSE Strip(msg.content))
                          \o <<"\n", "**Execution time:**", " ", "N/A">>,
                       TitleCompleted)>>
    ELSE <<>>

\* the entries of the messages that follow the last user message, in order
RECURSIVE AfterLastUser(_, _)
AfterLastUser(msgs, m) ==
    IF msgs = <<>> \/ msgs[Len(msgs)].role = "user" THEN <<>>
    ELSE AfterLastUser(SubSeq(msgs, 1, Len(msgs) - 1), m) \o DisplayedAs(msgs[Len(msgs)], m)

\* C36: a non-streaming turn that waits for its response will, for every
\* response, append to its transcript (placeholder emptied) exactly the entries
\* of the messages after the last user message: one per assistant message, empty
\* for a null content, and with metadata ON a started and a completed entry with
\* "N/A" per tool message; when the response arrives the completion snapshot
\* shows such a transcript.
C36_OnlyAfterLastUser ==
    [][\A t \in Turns :
          pc[t] = "await_response" =>
              /\ \A resp \in env.responses :
                    ProcessResponse(chat_history[t], resp, meta[t])
                        = ClearPlaceholder(chat_history[t]) \o AfterLastUser(resp, meta[t])
              /\ pc'[t] = "final_yield" =>
                    /\ \E resp \in env.responses :
                          chat_history'[t] = ClearPlaceholder(chat_history[t])
                                                \o AfterLastUser(resp, meta[t])
                    /\ shown'[conv[t]] = chat_history'[t]]_vars

\* a response with an earlier exchange, then the user message, a null assistant
\* message, a tool message and the answer, shown with metadata ON
C36_Witness ==
    \E t \in Turns :
        /\ pc[t] = "final_yield" /\ strm[t] = "OFF" /\ meta[t] = "ON"
        /\ Len(chat_history[t]) = 6
        /\ chat_history[t][1] = UserEntry
        /\ chat_history[t][2] = EmptyEntry /\ chat_history[t][3] = EmptyEntry
        /\ chat_history[t][4].title = TitleStarted
        /\ chat_history[t][5].title = TitleCompleted
        /\ chat_history[t][6] = ChatMessage("assistant", <<"a">>, NoTitle)

====
